---------------------------- MODULE Spec2Model ----------------------------
(***************************************************************************)
(* Model of the KCI/RISS literature collector:                             *)
(*   - app.py             merge_frames, normalize_title                    *)
(*   - query_normalizer.py QueryNormalizer.normalize                       *)
(*   - KCI_collector.py   OptimizedKCIAnalyzer (detail cache, batch        *)
(*                        lookup, enrichment write-back)                   *)
(*                        and the tree flattening and extraction           *)
(*   - RISS_collector.py  ImprovedRISSAnalyzer (article extraction,        *)
(*                        multi-strategy search)                           *)
(*                                                                         *)
(* Text is modelled as a sequence of characters, each character a one-     *)
(* element string token; a value whose inside the code never inspects      *)
(* (a doi, a url, a source tag) is a sequence holding one opaque token.    *)
(* The empty string is <<>>, a missing cell (pandas NaN) is NaN.           *)
(***************************************************************************)
EXTENDS Naturals, Sequences, FiniteSets, TLC

VARIABLES
    \* ---- app.py: merge_frames ----
    df_kci,      \* first argument of merge_frames (a table: columns and rows)
    df_riss,     \* second argument of merge_frames
    merged,      \* the table merge_frames(df_kci, df_riss) returned
    remerged,    \* the table merge_frames(merged, empty) returned
    mstage,      \* "off" | "input" | "merged" | "remerged"
    \* ---- query_normalizer.py: QueryNormalizer.normalize ----
    query,       \* the argument of normalize
    csv_terms,   \* what map_with_csv(query) returns
    ai_terms,    \* what map_with_ai(query) returns
    bundle,      \* what normalize(query) returned
    bundle_again, \* what a second call normalize(query) returned
    nstage,      \* "off" | "input" | "normalized"
    \* ---- KCI_collector.py: OptimizedKCIAnalyzer, detail enrichment ----
    detail_cache,    \* self.detail_cache: identifier -> payload
    records,         \* the records of the response given to extract_article_info_optimized
    articles,        \* the records being built by extract_article_info_optimized
    first_pass,      \* history: the records as the first pass left them
    need,            \* article_ids_need_detail: the record index of each lookup
    fetch_details,   \* the fetch_details argument of the call
    article_ids,     \* the argument of get_article_detail_batch
    max_workers,     \* its concurrency limit
    tasks,           \* one fetch_detail call per submitted identifier
    details,         \* the dict the batch is building
    collected,       \* the futures as_completed has handed to the main thread
    cache_at_start,  \* history: the cache as it was when the batch started
    requested,       \* history: <<lookup, identifier>> of the batch's network calls
    written,         \* history: <<lookup, key>> of the batch's cache writes
    dstage,          \* "off" | "idle" | "batch" | "returned"
    \* ---- KCI_collector.py: the tree flattener and the extraction functions ----
    element,         \* an XML element given to _xml_to_dict
    data,            \* a node of a response tree
    path,            \* the path given to _extract_from_path
    detail_info,     \* the detail payload given to _extract_keywords_optimized
    flat,            \* what the function applied last returned
    tstage,          \* "off" | "xml" | "node" | "text" | "path" | "title"
    \* ---- RISS_collector.py: ImprovedRISSAnalyzer ----
    api_response,    \* the response given to _extract_articles_from_response
    extracted,       \* the articles it returned
    max_results,     \* the argument of search_with_multiple_strategies
    all_results,     \* its accumulator
    contributed,     \* history: what each strategy added to the accumulator
    rstage,          \* "off" | "start" | "extracted" | "keyword" | "yearly" | "done"
    \* ---- app.py: normalize_title ----
    title,           \* the argument t
    title_key,       \* the returned key
    kstage           \* "off" | "given" | "done"

mergeVars == <<df_kci, df_riss, merged, remerged, mstage>>
normVars == <<query, csv_terms, ai_terms, bundle, bundle_again, nstage>>
detailVars == <<detail_cache, records, articles, first_pass, need, fetch_details, article_ids, max_workers,
                tasks, details, collected, cache_at_start, requested, written,
                dstage>>

treeVars == <<element, data, path, detail_info, flat, tstage>>

titleVars == <<title, title_key, kstage>>

rissVars == <<api_response, extracted, max_results, all_results, contributed, rstage>>

vars == <<mergeVars, normVars, detailVars, treeVars, rissVars, titleVars>>

(***************************************************************************)
(* Bounds of the model                                                     *)
(***************************************************************************)
\* rows of df_kci and df_riss together
MaxRows == 3
\* length of the pub_year strings enumerated exhaustively
MaxYearLen == 5
\* nesting depth of the response trees enumerated exhaustively
MaxDepth == 2
\* terms the mapping file can contribute to a query
MaxCsvTerms == 7
\* terms the language model can contribute to a query
MaxAiTerms == 7
\* records of one API response
MaxRecords == 2
\* the most articles one search request returns
MaxHits == 2
\* RISS_collector.py: the count of the title search (line 126), the cap of
\* rowcount (lines 181, 198, 222) and the least per_year (line 206)
TitleCount == 100
RowLimit == 100
MinPerYear == 10
\* characters of a title given to normalize_title
MaxTitleLen == 3

(***************************************************************************)
(* Generic helpers                                                         *)
(***************************************************************************)
SeqUpTo(S, n) == UNION {[1..k -> S] : k \in 0..n}

Range(s) == {s[i] : i \in DOMAIN s}

Min(S) == CHOOSE m \in S : \A k \in S : m <= k

\* the rows of s at the positions in I, in their order in s
RECURSIVE SelectRows(_, _)
SelectRows(s, I) ==
    IF s = <<>> THEN <<>>
    ELSE LET n == Len(s)
             front == SelectRows(SubSeq(s, 1, n - 1), I)
         IN  IF n \in I THEN Append(front, s[n]) ELSE front

(***************************************************************************)
(* Cell values                                                             *)
(***************************************************************************)
NaN == <<"NaN">>
EmptyStr == <<>>

UpperCase == <<"A","B","C","D","E","F","G","H","I","J","K","L","M",
               "N","O","P","Q","R","S","T","U","V","W","X","Y","Z">>
LowerCase == <<"a","b","c","d","e","f","g","h","i","j","k","l","m",
               "n","o","p","q","r","s","t","u","v","w","x","y","z">>

IsDigit(c) == c \in {"0","1","2","3","4","5","6","7","8","9"}
UpperLetters == Range(UpperCase)
LowerLetters == Range(LowerCase)
IsLowerAscii(c) == c \in LowerLetters
\* whitespace characters (regex \s, str.strip)
IsSpace(c) == c \in {" ", "\t", "\n"}
\* characters of the Korean syllable block U+AC00..U+D7A3, named by code point
IsHangulSyllable(c) == c \in {"U+AC00", "U+B144", "U+D7A3"}

\* the Kelvin sign, a letter outside ASCII whose lowercase is the ASCII k
KelvinSign == "U+212A"
\* str.lower(), one character
ToLower(c) ==
    IF c \in UpperLetters
    THEN LowerCase[CHOOSE i \in DOMAIN UpperCase : UpperCase[i] = c]
    ELSE IF c = KelvinSign THEN "k"
    ELSE c

(***************************************************************************)
(* app.py normalize_title                                                  *)
(***************************************************************************)
\* re.sub(r"\s+", " ", t): every maximal whitespace run becomes one space
RECURSIVE CollapseWhitespace(_)
CollapseWhitespace(t) ==
    IF t = <<>> THEN <<>>
    ELSE LET n == Len(t)
             front == CollapseWhitespace(SubSeq(t, 1, n - 1))
         IN  IF IsSpace(t[n])
             THEN IF n > 1 /\ IsSpace(t[n - 1]) THEN front ELSE Append(front, " ")
             ELSE Append(front, t[n])

\* str.strip(): leading and trailing whitespace removed
Strip(t) ==
    LET keep == {i \in DOMAIN t : ~IsSpace(t[i])}
    IN  IF keep = {} THEN <<>>
        ELSE SubSeq(t, Min(keep), CHOOSE m \in keep : \A k \in keep : k <= m)

\* str.lower()
LowerStr(t) == [i \in DOMAIN t |-> ToLower(t[i])]

\* re.sub(r"[^0-9a-z가-힣 ]", "", t)
StripOtherChars(t) ==
    SelectSeq(t, LAMBDA c : IsDigit(c) \/ IsLowerAscii(c) \/ IsHangulSyllable(c) \/ c = " ")

\* a faulty variant of normalize_title that does not lowercase
normalize_title_cased(t) ==
    IF t = NaN THEN <<>>
    ELSE StripOtherChars(Strip(CollapseWhitespace(t)))
\* normalize_title (lines 42-48)
normalize_title(t) ==
    IF t = NaN THEN <<>>
    ELSE StripOtherChars(LowerStr(Strip(CollapseWhitespace(t))))

(***************************************************************************)
(* app.py merge_frames                                                     *)
(* A table is [cols |-> set of column names, rows |-> sequence of rows],   *)
(* a row a function from the table's columns to cell values.  The order of *)
(* the columns is not modelled.                                            *)
(***************************************************************************)
CanonicalColumns ==
    {"title", "authors", "venue", "pub_year", "url", "doi", "abstract", "keywords", "source"}
RissKeepColumns == CanonicalColumns \cup {"doc_type", "material_type"}
KciFillColumns == {"authors", "venue", "pub_year", "url", "doi", "abstract", "keywords"}
RissFillColumns == {"doi", "abstract", "keywords"}

KCI == <<"KCI">>
RISS == <<"RISS">>

\* pd.DataFrame(): no columns, no rows
EmptyFrame == [cols |-> {}, rows |-> <<>>]

\* `df is not None and not df.empty`
Usable(df) == df.rows # <<>> /\ df.cols # {}

\* df[col] = value (a new column, or every cell of an old one overwritten)
SetColumn(df, col, value) ==
    [cols |-> df.cols \cup {col},
     rows |-> [i \in DOMAIN df.rows |->
                 [c \in df.cols \cup {col} |-> IF c = col THEN value ELSE df.rows[i][c]]]]

\* df.rename(columns={old: new}); nothing happens when old is no column
RenameColumn(df, old, new) ==
    IF old \notin df.cols THEN df
    ELSE LET cs == (df.cols \ {old}) \cup {new}
         IN  [cols |-> cs,
              rows |-> [i \in DOMAIN df.rows |->
                          [c \in cs |-> IF c = new THEN df.rows[i][old] ELSE df.rows[i][c]]]]

\* for col in cols: if col not in df.columns: df[col] = ""
RECURSIVE FillMissing(_, _)
FillMissing(df, cols) ==
    IF cols = {} THEN df
    ELSE LET c == CHOOSE x \in cols : TRUE
             rest == FillMissing(df, cols \ {c})
         IN  IF c \in rest.cols THEN rest ELSE SetColumn(rest, c, EmptyStr)

\* df[[...]]: the projection on the named columns
Project(df, cols) ==
    [cols |-> cols, rows |-> [i \in DOMAIN df.rows |-> [c \in cols |-> df.rows[i][c]]]]

\* faulty variant of StandardizeKci: the projection on the canonical columns forgotten
StandardizeKciUnprojected(df) ==
    FillMissing(RenameColumn(SetColumn(df, "source", KCI), "journal_name", "venue"),
                KciFillColumns)

\* lines 67-90: the KCI table in the canonical schema
StandardizeKci(df) ==
    Project(FillMissing(RenameColumn(SetColumn(df, "source", KCI), "journal_name", "venue"),
                        KciFillColumns),
            CanonicalColumns)

\* faulty variant of StandardizeRiss: the source tag copied from the KCI branch
StandardizeRissTaggedKci(df) ==
    Project(FillMissing(FillMissing(
                RenameColumn(RenameColumn(SetColumn(df, "source", KCI), "author", "authors"),
                             "publisher", "venue"),
                RissFillColumns), RissKeepColumns),
            RissKeepColumns)

\* lines 93-114: the RISS table in the canonical schema plus doc_type, material_type
StandardizeRiss(df) ==
    Project(FillMissing(FillMissing(
                RenameColumn(RenameColumn(SetColumn(df, "source", RISS), "author", "authors"),
                             "publisher", "venue"),
                RissFillColumns), RissKeepColumns),
            RissKeepColumns)

\* pd.concat(frames, ignore_index=True): the union of the columns, the rows of the
\* frames in order, a cell of a column its frame does not have is NaN
ConcatFrames(frames) ==
    LET cs == UNION {frames[k].cols : k \in DOMAIN frames}
        widen(df) == [i \in DOMAIN df.rows |->
                        [c \in cs |-> IF c \in df.cols THEN df.rows[i][c] ELSE NaN]]
    IN  [cols |-> cs,
         rows |-> IF Len(frames) = 1 THEN widen(frames[1])
                  ELSE widen(frames[1]) \o widen(frames[2])]

\* Series.astype(str), one cell: NaN becomes the text "nan"
AsTypeStr(v) == IF v = NaN THEN <<"n", "a", "n">> ELSE v

\* faulty variant of ExtractYear: the pattern anchored to the whole cell (^\d{4}$)
ExtractYearWholeCell(s) ==
    IF Len(s) = 4 /\ \A k \in 1..4 : IsDigit(s[k]) THEN s ELSE NaN

\* Series.str.extract(r"(\d{4})")[0], one cell: the first run of four digits, or NaN
ExtractYear(s) ==
    LET starts == {i \in 1..Len(s) : i + 3 <= Len(s) /\ \A k \in 0..3 : IsDigit(s[i + k])}
    IN  IF starts = {} THEN NaN ELSE SubSeq(s, Min(starts), Min(starts) + 3)

\* line 122
NormalizeYears(df) ==
    [cols |-> df.cols,
     rows |-> [i \in DOMAIN df.rows |->
                 [df.rows[i] EXCEPT !["pub_year"] = ExtractYear(AsTypeStr(@))]]]

\* faulty variant of KeptPositions: keep="last"
KeptPositionsLast(rows, col) ==
    {i \in DOMAIN rows : \A j \in (i + 1)..Len(rows) : rows[j][col] # rows[i][col]}

\* the positions df.drop_duplicates(subset=[col]) keeps (keep="first")
KeptPositions(rows, col) ==
    {i \in DOMAIN rows : \A j \in 1..(i - 1) : rows[j][col] # rows[i][col]}

\* df.drop_duplicates(subset=[col]).reset_index(drop=True)
drop_duplicates(df, col) ==
    [cols |-> df.cols, rows |-> SelectRows(df.rows, KeptPositions(df.rows, col))]

\* all_df["_title_key"] = all_df["title"].apply(normalize_title)
WithTitleKey(df) ==
    [cols |-> df.cols \cup {"_title_key"},
     rows |-> [i \in DOMAIN df.rows |->
                 [c \in df.cols \cup {"_title_key"} |->
                    IF c = "_title_key" THEN normalize_title(df.rows[i]["title"])
                    ELSE df.rows[i][c]]]]

\* lines 65-114: the standardized frames, KCI first
StandardFrames(kci, riss) ==
    (IF Usable(kci) THEN <<StandardizeKci(kci)>> ELSE <<>>)
    \o (IF Usable(riss) THEN <<StandardizeRiss(riss)>> ELSE <<>>)

\* line 119: the concatenation (defined when some frame is usable)
Concatenated(kci, riss) == ConcatFrames(StandardFrames(kci, riss))

\* lines 126-127: dedup pass 1
DedupDoi(df) == IF "doi" \in df.cols THEN drop_duplicates(df, "doi") ELSE df

\* faulty variant of DedupTitle: the raw title used as the key
DedupRawTitle(df) == drop_duplicates(df, "title")

\* lines 129-130: dedup pass 2
DedupTitle(df) ==
    LET d == drop_duplicates(WithTitleKey(df), "_title_key")
    IN  Project(d, d.cols \ {"_title_key"})

merge_frames(kci, riss) ==
    IF StandardFrames(kci, riss) = <<>>
    THEN [cols |-> CanonicalColumns, rows |-> <<>>]
    ELSE DedupTitle(DedupDoi(NormalizeYears(Concatenated(kci, riss))))

(***************************************************************************)
(* Inputs of merge_frames                                                  *)
(***************************************************************************)
StudyOfX == <<"S","t","u","d","y"," ","o","f"," ","X">>
studyofx == <<"s","t","u","d","y"," ","o","f"," ","x">>
OtherTitle == <<"A"," "," ","n","o","t","e","!">>
Titles == {StudyOfX, studyofx, OtherTitle}

Dois == {EmptyStr, <<"10.1/a">>, <<"10.1/b">>}

Year2023Dot05 == <<"2","0","2","3",".","0","5">>
Year2023Nyeon == <<"2","0","2","3","U+B144">>
Year2023 == <<"2","0","2","3">>
YearNA == <<"n","/","a">>
TableYears == {Year2023Dot05, YearNA}
YearChars == {"2", "0", "."}
YearStrings == SeqUpTo(YearChars, MaxYearLen) \cup {Year2023Dot05, Year2023Nyeon, Year2023, YearNA}

\* columns of the table extract_article_info_optimized returns that merge_frames
\* reads, and article_id for the ones the projection drops
KciColumns ==
    {"title", "authors", "journal_name", "pub_year", "url", "doi", "abstract",
     "keywords", "article_id"}
\* a KCI table that lacks some canonical columns
KciSparseColumns == {"title", "journal_name", "doi"}
KciSchemas == {KciColumns, KciSparseColumns}

\* columns of the records _extract_articles_from_response builds
RissColumns ==
    {"title", "author", "publisher", "pub_year", "doc_type", "material_type", "url",
     "has_abstract"}

KciRow(t, d, y) ==
    [title |-> t, authors |-> <<"Kim; Lee">>, journal_name |-> <<"Journal">>,
     pub_year |-> y, url |-> <<"http://kci">>, doi |-> d, abstract |-> <<"abs">>,
     keywords |-> <<"kw">>, article_id |-> <<"ART1">>]

RissRow(t, y) ==
    [title |-> t, author |-> <<"Park">>, publisher |-> <<"Univ">>, pub_year |-> y,
     doc_type |-> <<"T">>, material_type |-> <<"thesis">>, url |-> <<"http://riss">>,
     has_abstract |-> <<"Y">>]

KciRows == {KciRow(t, d, Year2023Dot05) : t \in Titles, d \in Dois}
RissRows == {RissRow(t, y) : t \in Titles, y \in TableYears}

\* a table of the given schema with the given rows
Table(cols, rows) ==
    IF rows = <<>> THEN EmptyFrame
    ELSE [cols |-> cols, rows |-> [i \in DOMAIN rows |-> [c \in cols |-> rows[i][c]]]]

InitTables ==
    \E n \in 0..MaxRows :
      \E a \in SeqUpTo(KciRows, n), s \in KciSchemas :
        \E b \in SeqUpTo(RissRows, n - Len(a)) :
            /\ df_kci = Table(s, a)
            /\ df_riss = Table(RissColumns, b)

\* one record, its pub_year any short string
InitYears ==
    \E y \in YearStrings :
        \/ /\ df_kci = Table(KciColumns, <<KciRow(OtherTitle, EmptyStr, y)>>)
           /\ df_riss = EmptyFrame
        \/ /\ df_kci = EmptyFrame
           /\ df_riss = Table(RissColumns, <<RissRow(OtherTitle, y)>>)

\* the parts of the program a specification leaves out stay as they are here
MergeOff ==
    /\ df_kci = EmptyFrame /\ df_riss = EmptyFrame
    /\ merged = EmptyFrame /\ remerged = EmptyFrame
    /\ mstage = "off"
NormalizeOff ==
    /\ query = <<>> /\ csv_terms = <<>> /\ ai_terms = <<>>
    /\ bundle = <<>> /\ bundle_again = <<>>
    /\ nstage = "off"

\* {}
EmptyDict == [k \in {} |-> ""]
DetailOff ==
    /\ detail_cache = EmptyDict /\ details = EmptyDict
    /\ records = <<>>
    /\ articles = <<>> /\ first_pass = <<>> /\ need = <<>>
    /\ fetch_details = FALSE
    /\ article_ids = <<>> /\ tasks = <<>> /\ max_workers = 0
    /\ collected = {} /\ cache_at_start = EmptyDict
    /\ requested = {} /\ written = {}
    /\ dstage = "off"

\* a node of a response tree: None, a string, a number, a dict (its entries in
\* insertion order) or a list (its elements, under the key "")
PyNone == [type |-> "None", text |-> <<>>, kids |-> <<>>]
\* an element without text, attributes and children
EmptyElement == [text |-> <<>>, attrib |-> <<>>, children |-> <<>>]
\* the result of a function: its text or its list of texts, whether it raised,
\* and the recursive calls it made
NoResult == [raised |-> FALSE, text |-> <<>>, items |-> <<>>, calls |-> 0]
TreeOff ==
    /\ element = EmptyElement /\ data = PyNone /\ path = <<>>
    /\ detail_info = PyNone
    /\ flat = NoResult
    /\ tstage = "off"

RissOff ==
    /\ api_response = PyNone /\ extracted = <<>>
    /\ max_results = 0 /\ all_results = <<>> /\ contributed = <<>>
    /\ rstage = "off"

TitleOff == title = <<>> /\ title_key = <<>> /\ kstage = "off"

InitMerge ==
    /\ InitTables \/ InitYears
    /\ merged = EmptyFrame
    /\ remerged = EmptyFrame
    /\ mstage = "input"
    /\ NormalizeOff
    /\ DetailOff
    /\ TreeOff
    /\ RissOff
    /\ TitleOff

\* merged = merge_frames(df_kci, df_riss)
Merge ==
    /\ mstage = "input"
    /\ merged' = merge_frames(df_kci, df_riss)
    /\ mstage' = "merged"
    /\ UNCHANGED <<df_kci, df_riss, remerged, normVars, detailVars, treeVars, rissVars, titleVars>>

\* merge_frames(merged, empty table): the merge applied to its own result
Remerge ==
    /\ mstage = "merged"
    /\ remerged' = merge_frames(merged, EmptyFrame)
    /\ mstage' = "remerged"
    /\ UNCHANGED <<df_kci, df_riss, merged, normVars, detailVars, treeVars, rissVars, titleVars>>

NextMerge == Merge \/ Remerge

SpecMerge == InitMerge /\ [][NextMerge]_vars

(***************************************************************************)
(* query_normalizer.py QueryNormalizer.normalize                           *)
(* The mapping file and the language model are outside the program: what   *)
(* map_with_csv and map_with_ai return are inputs.  map_with_csv returns a *)
(* sorted list of distinct non-empty terms, map_with_ai a list of          *)
(* non-empty stripped terms.                                               *)
(***************************************************************************)
\* bundle[:12]
MaxTotal == 12

\* the character c, n times
Term(c, n) == [i \in 1..n |-> c]

\* terms of the mapping file: "c", "cc", "ccc", ...
CsvPool == [n \in 1..MaxCsvTerms |-> Term("c", n)]
\* terms of the language model: one the mapping file has too, then longer ones
AiPool == [k \in 1..MaxAiTerms |-> IF k = 1 THEN Term("c", 1) ELSE Term("a", k + 5)]

Queries == {<<>>, Term("q", 1), Term("c", 2), Term("q", 11), Term("q", 13)}

\* [t for t in bundle if t]
NonEmptyTerms(terms) == SelectSeq(terms, LAMBDA t : t # <<>>)

\* sorted(list(S), key=len): the sort is stable and list(set) puts the terms in
\* hash order, so terms of equal length come in any order
RECURSIVE SortedByLen(_)
SortedByLen(S) ==
    IF S = {} THEN {<<>>}
    ELSE LET shortest == {t \in S : \A u \in S : Len(t) <= Len(u)}
         IN  UNION {{<<t>> \o rest : rest \in SortedByLen(S \ {t})} : t \in shortest}

\* s[:n]
Take(s, n) == SubSeq(s, 1, IF Len(s) < n THEN Len(s) ELSE n)

\* lines 114-115: the candidates, the query first
Candidates(q, csv, ai) == NonEmptyTerms(<<q>> \o csv \o ai)

\* the lists normalize(query) can return
normalize(q, csv, ai) ==
    {Take(order, MaxTotal) : order \in SortedByLen(Range(Candidates(q, csv, ai)))}

InitNormalize ==
    /\ query \in Queries
    /\ \E chosen \in SUBSET (1..MaxCsvTerms) :
          csv_terms = SelectRows(CsvPool, chosen)
    /\ \E n \in 0..MaxAiTerms : ai_terms = SubSeq(AiPool, 1, n)
    /\ bundle = <<>> /\ bundle_again = <<>>
    /\ nstage = "input"
    /\ MergeOff
    /\ DetailOff
    /\ TreeOff
    /\ RissOff
    /\ TitleOff

\* bundle = normalize(query)
Normalize ==
    /\ nstage = "input"
    /\ bundle' \in normalize(query, csv_terms, ai_terms)
    /\ nstage' = "normalized"
    /\ UNCHANGED <<query, csv_terms, ai_terms, bundle_again, mergeVars, detailVars, treeVars, rissVars, titleVars>>

\* normalize(query) called again with the same mapping file and the same
\* answer of the language model, in another run of the program: the order of
\* list(set(...)) follows the interpreter's string hashes, which change from
\* run to run
NormalizeAgain ==
    /\ nstage = "normalized"
    /\ bundle_again' \in normalize(query, csv_terms, ai_terms)
    /\ nstage' = "again"
    /\ UNCHANGED <<query, csv_terms, ai_terms, bundle, mergeVars, detailVars, treeVars, rissVars, titleVars>>

NextNormalize ==
    \/ Normalize
    \/ NormalizeAgain

SpecNormalize == InitNormalize /\ [][NextNormalize]_vars

(***************************************************************************)
(* KCI_collector.py OptimizedKCIAnalyzer: detail enrichment                *)
(* extract_article_info_optimized makes a first pass over the records of a *)
(* response, then calls get_article_detail_batch for the records lacking   *)
(* keywords or abstract and writes the details back.  The batch runs one   *)
(* fetch_detail per submitted identifier on a thread pool; the steps of a  *)
(* fetch_detail that touch shared state are its cache check, its network   *)
(* request and its cache write.  A record is modelled by what the first    *)
(* pass extracts from it, a detail payload by what the write-back extracts *)
(* from it.                                                                *)
(***************************************************************************)
\* max_workers=5 in the call of extract_article_info_optimized
DetailWorkers == 5

Ids == {"A1", "A2"}
\* article_info.get('article-id', '')
NoId == ""
\* what fetch_detail returns for a lookup that failed
None == "None"
\* _xml_to_dict of an element without text, attributes and children: {}
EmptyPayload == "{}"
\* a detail payload carrying keywords and an abstract
Detail1 == "D1"
\* a detail payload carrying keywords only
Detail2 == "D2"
\* a detail payload whose outputData.record is a list (the element repeated)
DetailList == "DL"
Payloads == {EmptyPayload, Detail1, Detail2, DetailList}
\* status other than 200, timeout, text that does not parse
Failure == "failure"
Outcomes == {Failure} \cup Payloads

\* _extract_keywords_optimized on the detail's articleInfo
DetailKeywords(p) == IF p = Detail1 THEN "k1" ELSE IF p = Detail2 THEN "k2" ELSE ""
\* _extract_abstract_optimized on the detail's articleInfo
DetailAbstract(p) == IF p = Detail1 THEN "a1" ELSE ""

\* `if result:` is false for None and for {}
Truthy(result) == result \notin {None, EmptyPayload}

\* d[k] = v
Put(d, k, v) == [x \in DOMAIN d \cup {k} |-> IF x = k THEN v ELSE d[x]]

\* the records of a response, as the first pass extracts them
Record(id, kw, abs) == [article_id |-> id, keywords |-> kw, abstract |-> abs]
Records ==
    {Record(id, "k0", "a0") : id \in Ids} \cup
    {Record(id, "", "a0") : id \in Ids} \cup
    {Record(id, "", "") : id \in Ids \cup {NoId}}
\* a record of a response: its journalInfo is a map, or a list when the element
\* is repeated (_xml_to_dict lines 171-174)
RawRecord(shape, article) ==
    [journalInfo |-> shape, article_id |-> article.article_id,
     keywords |-> article.keywords, abstract |-> article.abstract]
RawRecords ==
    {RawRecord("map", a) : a \in Records} \cup {RawRecord("list", Record("A1", "", ""))}
Responses == SeqUpTo(RawRecords, MaxRecords) \ {<<>>}

\* line 362: journal_info.get on a list raises AttributeError
Raises(record) == record.journalInfo = "list"

\* _extract_basic_info(record), for a record it does not raise on
extract_basic_info(record) ==
    Record(record.article_id, record.keywords, record.abstract)

\* lines 309-311: the records the loop gets through before one raises
FirstPass(recs) ==
    LET bad == {i \in DOMAIN recs : Raises(recs[i])}
        stop == IF bad = {} THEN Len(recs) + 1 ELSE Min(bad)
    IN  [i \in 1..(stop - 1) |-> extract_basic_info(recs[i])]

\* lines 332-341: detail_info...get('record', {}).get on a list raises
WriteBackRaises(detail) == detail = DetailList

\* the concurrency limits of a direct call of get_article_detail_batch
WorkerLimits == {1, 2}
Batches == SeqUpTo(Ids, MaxRecords) \ {<<>>}

\* a faulty variant of NeedsDetail that asks for both fields to be empty
NeedsDetailBoth(article, fetch) ==
    /\ article.keywords = "" /\ article.abstract = ""
    /\ article.article_id # NoId
    /\ fetch
\* lines 314-318
NeedsDetail(article, fetch) ==
    /\ article.keywords = "" \/ article.abstract = ""
    /\ article.article_id # NoId
    /\ fetch

\* article_ids_need_detail, as the record indices
NeedDetail(arts, fetch) ==
    SelectSeq([i \in 1..Len(arts) |-> i],
              LAMBDA i : NeedsDetail(arts[i], fetch))

Queued == [pc |-> "queued", result |-> None, hit |-> FALSE]

\* faulty variant of CacheHit: the cache is never consulted
CacheHitNever(cache, id) == FALSE
\* line 123
CacheHit(cache, id) == id \in DOMAIN cache

\* faulty variant of CacheKey: every lookup writes under the first identifier
CacheKeyShared(t) == article_ids[1]
\* line 137: the key of the cache write of lookup t
CacheKey(t) == article_ids[t]

\* faulty variant of Collected: `if result:` forgotten
CollectedAlways(d, id, result) == Put(d, id, result)
\* lines 152-153
Collected(d, id, result) == IF Truthy(result) THEN Put(d, id, result) ELSE d

\* faulty variant of Enhanced: the emptiness tests of lines 336 and 340 forgotten
EnhancedOverwriting(article, detail) ==
    [article EXCEPT
        !.keywords = IF DetailKeywords(detail) # "" THEN DetailKeywords(detail) ELSE @,
        !.abstract = IF DetailAbstract(detail) # "" THEN DetailAbstract(detail) ELSE @]
\* faulty variant of Enhanced: the record is rebuilt from the detail payload
EnhancedRebuilt(article, detail) ==
    [article_id |-> NoId, keywords |-> DetailKeywords(detail),
     abstract |-> DetailAbstract(detail)]
\* lines 331-344: the record after its detail is written back
Enhanced(article, detail) ==
    LET enhanced_keywords ==
            IF article.keywords # "" THEN article.keywords ELSE DetailKeywords(detail)
        enhanced_abs == DetailAbstract(detail)
    IN  [article EXCEPT
            !.keywords = IF enhanced_keywords # "" /\ article.keywords = ""
                         THEN enhanced_keywords ELSE @,
            !.abstract = IF article.abstract = "" /\ enhanced_abs # ""
                         THEN enhanced_abs ELSE @]

\* lines 329-344
WriteBack(arts, idx, ids, det) ==
    LET bad == {k \in DOMAIN idx : ids[k] \in DOMAIN det /\ WriteBackRaises(det[ids[k]])}
        stop == IF bad = {} THEN Len(idx) + 1 ELSE Min(bad)
    IN  [i \in DOMAIN arts |->
            IF \E k \in 1..(stop - 1) : idx[k] = i /\ ids[k] \in DOMAIN det
            THEN Enhanced(arts[i], det[arts[i].article_id])
            ELSE arts[i]]

InitDetail ==
    /\ detail_cache = EmptyDict /\ details = EmptyDict
    /\ records = <<>>
    /\ articles = <<>> /\ first_pass = <<>> /\ need = <<>>
    /\ fetch_details = FALSE
    /\ article_ids = <<>> /\ tasks = <<>> /\ max_workers = 0
    /\ collected = {} /\ cache_at_start = EmptyDict
    /\ requested = {} /\ written = {}
    /\ dstage = "idle"
    /\ MergeOff
    /\ NormalizeOff
    /\ TreeOff
    /\ RissOff
    /\ TitleOff

\* lines 120-148: every identifier is submitted to the pool
StartBatch(ids, workers) ==
    /\ article_ids' = ids
    /\ max_workers' = workers
    /\ tasks' = [t \in 1..Len(ids) |-> Queued]
    /\ details' = EmptyDict
    /\ collected' = {}
    /\ cache_at_start' = detail_cache
    /\ requested' = {}
    /\ written' = {}
    /\ dstage' = "batch"

\* extract_article_info_optimized(api_response, fetch_details), up to the batch
Extract ==
    /\ dstage = "idle"
    /\ \E response \in Responses, fetch \in BOOLEAN :
          LET arts == FirstPass(response)
              raised == Len(arts) < Len(response)
              idx == IF raised THEN <<>> ELSE NeedDetail(arts, fetch)
          IN  /\ records' = response
              /\ articles' = arts
              /\ first_pass' = arts
              /\ need' = idx
              /\ fetch_details' = fetch
              /\ IF idx = <<>>
                 THEN /\ article_ids' = <<>> /\ tasks' = <<>> /\ max_workers' = 0
                      /\ details' = EmptyDict /\ collected' = {}
                      /\ cache_at_start' = detail_cache
                      /\ requested' = {} /\ written' = {}
                      /\ dstage' = "returned"
                 ELSE StartBatch([k \in 1..Len(idx) |-> arts[idx[k]].article_id],
                                 DetailWorkers)
    /\ UNCHANGED <<detail_cache, mergeVars, normVars, treeVars, rissVars, titleVars>>

\* get_article_detail_batch(article_ids, max_workers) called on its own
DetailBatch ==
    /\ dstage = "idle"
    /\ \E ids \in Batches, workers \in WorkerLimits : StartBatch(ids, workers)
    /\ records' = <<>>
    /\ articles' = <<>> /\ first_pass' = <<>> /\ need' = <<>>
    /\ fetch_details' = FALSE
    /\ UNCHANGED <<detail_cache, mergeVars, normVars, treeVars, rissVars, titleVars>>

\* faulty variant of MayRun: one thread per submitted lookup
MayRunUnbounded(t) == TRUE
\* the pool hands out the lookups in submission order to max_workers threads
MayRun(t) ==
    Cardinality({u \in 1..(t - 1) : tasks[u].pc # "done"}) < max_workers

\* lines 123-124: the cache check of a lookup
Check ==
    /\ dstage = "batch"
    /\ \E t \in DOMAIN tasks :
          /\ tasks[t].pc = "queued"
          /\ MayRun(t)
          /\ tasks' = [tasks EXCEPT ![t] =
                IF CacheHit(detail_cache, article_ids[t])
                THEN [pc |-> "done", result |-> detail_cache[article_ids[t]],
                      hit |-> TRUE]
                ELSE [pc |-> "miss", result |-> None, hit |-> FALSE]]
    /\ UNCHANGED <<detail_cache, records, articles, first_pass, need, fetch_details, article_ids,
                   max_workers, details, collected, cache_at_start, requested,
                   written, dstage, mergeVars, normVars, treeVars, rissVars, titleVars>>

\* a faulty variant of Requested that goes on to the cache write after a failure
RequestedAlwaysStored(outcome) ==
    [pc |-> "fetched", result |-> IF outcome = Failure THEN None ELSE outcome,
     hit |-> FALSE]
\* lines 132-143: a lookup after its request; a failure returns None without
\* reaching the cache write
Requested(outcome) ==
    IF outcome = Failure
    THEN [pc |-> "done", result |-> None, hit |-> FALSE]
    ELSE [pc |-> "fetched", result |-> outcome, hit |-> FALSE]

\* lines 132-143: the network call and its outcome
Request ==
    /\ dstage = "batch"
    /\ \E t \in DOMAIN tasks, outcome \in Outcomes :
          /\ tasks[t].pc = "miss"
          /\ requested' = requested \cup {<<t, article_ids[t]>>}
          /\ tasks' = [tasks EXCEPT ![t] = Requested(outcome)]
    /\ UNCHANGED <<detail_cache, records, articles, first_pass, need, fetch_details, article_ids,
                   max_workers, details, collected, cache_at_start,
                   written, dstage, mergeVars, normVars, treeVars, rissVars, titleVars>>

\* lines 137-138: the cache write
Store ==
    /\ dstage = "batch"
    /\ \E t \in DOMAIN tasks :
          /\ tasks[t].pc = "fetched"
          /\ detail_cache' = Put(detail_cache, CacheKey(t), tasks[t].result)
          /\ written' = written \cup {<<t, CacheKey(t)>>}
          /\ tasks' = [tasks EXCEPT ![t].pc = "done"]
    /\ UNCHANGED <<records, articles, first_pass, need, fetch_details, article_ids, max_workers, details,
                   collected, cache_at_start, requested, dstage,
                   mergeVars, normVars, treeVars, rissVars, titleVars>>

\* lines 150-154: as_completed hands a finished lookup to the main thread
Collect ==
    /\ dstage = "batch"
    /\ \E t \in DOMAIN tasks \ collected :
          /\ tasks[t].pc = "done"
          /\ details' = Collected(details, article_ids[t], tasks[t].result)
          /\ collected' = collected \cup {t}
    /\ UNCHANGED <<detail_cache, records, articles, first_pass, need, fetch_details, article_ids,
                   max_workers, tasks, cache_at_start, requested, written,
                   dstage, mergeVars, normVars, treeVars, rissVars, titleVars>>

\* line 157 and lines 329-344: the batch returns, the details are written back
Return ==
    /\ dstage = "batch"
    /\ collected = DOMAIN tasks
    /\ articles' = WriteBack(articles, need, article_ids, details)
    /\ dstage' = "returned"
    /\ UNCHANGED <<detail_cache, records, first_pass, need, fetch_details, article_ids, max_workers, tasks,
                   details, collected, cache_at_start, requested, written,
                   mergeVars, normVars, treeVars, rissVars, titleVars>>

\* the caller is done with the result; the locals of the call are gone and
\* the analyzer, with its cache, is ready for the next call
Release ==
    /\ dstage = "returned"
    /\ records' = <<>>
    /\ articles' = <<>> /\ first_pass' = <<>> /\ need' = <<>>
    /\ fetch_details' = FALSE
    /\ article_ids' = <<>> /\ tasks' = <<>> /\ max_workers' = 0
    /\ details' = EmptyDict /\ collected' = {}
    /\ cache_at_start' = EmptyDict /\ requested' = {} /\ written' = {}
    /\ dstage' = "idle"
    /\ UNCHANGED <<detail_cache, mergeVars, normVars, treeVars, rissVars, titleVars>>

NextDetail ==
    \/ Extract
    \/ DetailBatch
    \/ Check
    \/ Request
    \/ Store
    \/ Collect
    \/ Return
    \/ Release

SpecDetail == InitDetail /\ [][NextDetail]_vars

(***************************************************************************)
(* KCI_collector.py: _xml_to_dict, _extract_text_fast                      *)
(* A node is a record [type, text, kids]: text holds the characters of a   *)
(* string or the digits of a number, kids the entries [key, value] of a    *)
(* dict in insertion order or the elements of a list.  Keys are character  *)
(* sequences.                                                              *)
(***************************************************************************)
Entry(k, v) == [key |-> k, value |-> v]
Str(s) == [type |-> "str", text |-> s, kids |-> <<>>]
Int(digits) == [type |-> "int", text |-> digits, kids |-> <<>>]
Dict(entries) == [type |-> "dict", text |-> <<>>, kids |-> entries]
List(elems) ==
    [type |-> "list", text |-> <<>>,
     kids |-> [i \in DOMAIN elems |-> Entry(<<>>, elems[i])]]

KeyText == <<"t", "e", "x", "t">>
KeyHashText == <<"#", "t", "e", "x", "t">>
KeyContent == <<"c", "o", "n", "t", "e", "n", "t">>
KeyValue == <<"v", "a", "l", "u", "e">>
KeyLang == <<"l", "a", "n", "g">>
KeyType == <<"t", "y", "p", "e">>
KeyId == <<"i", "d">>
KeyP == <<"p">>
KeyKwd == <<"k", "w", "d">>
KeyKwdGroup == <<"k", "w", "d", "-", "g", "r", "o", "u", "p">>

\* an element that has text only
TextNode(t) == Dict(<<Entry(KeyText, Str(t))>>)

\* line 192: the keys tried after 'text', in this order
AltTextKeys == <<KeyHashText, KeyContent, KeyValue>>
\* line 198: the keys a single-entry dict is not followed through
SkipKeys == {KeyLang, KeyType, KeyId}

\* key in d
HasKey(d, k) == \E i \in DOMAIN d.kids : d.kids[i].key = k
\* d[key]
Get(d, k) == d.kids[CHOOSE i \in DOMAIN d.kids : d.kids[i].key = k].value
\* d[key] = v: an existing key keeps its place
SetItem(entries, k, v) ==
    IF \E i \in DOMAIN entries : entries[i].key = k
    THEN [i \in DOMAIN entries |-> IF entries[i].key = k THEN Entry(k, v) ELSE entries[i]]
    ELSE Append(entries, Entry(k, v))

\* bool(data) of a value that is no string, dict or non-empty list
IsTruthy(n) ==
    CASE n.type = "None" -> FALSE
      [] n.type = "int" -> n.text # <<"0">>
      [] OTHER -> n.text # <<>> \/ n.kids # <<>>

\* repr(x) and str(x)
RECURSIVE Repr(_)
RECURSIVE ReprEntries(_, _)
ReprEntries(kids, keyed) ==
    IF kids = <<>> THEN <<>>
    ELSE LET one == (IF keyed THEN <<"'">> \o kids[1].key \o <<"'", ":", " ">> ELSE <<>>)
                        \o Repr(kids[1].value)
         IN  IF Len(kids) = 1 THEN one
             ELSE one \o <<",", " ">> \o ReprEntries(Tail(kids), keyed)
Repr(n) ==
    CASE n.type = "str" -> <<"'">> \o n.text \o <<"'">>
      [] n.type = "None" -> <<"N", "o", "n", "e">>
      [] n.type = "int" -> n.text
      [] n.type = "dict" -> <<"{">> \o ReprEntries(n.kids, TRUE) \o <<"}">>
      [] n.type = "list" -> <<"[">> \o ReprEntries(n.kids, FALSE) \o <<"]">>
PyStr(n) == IF n.type = "str" THEN n.text ELSE Repr(n)

\* a return without a recursive call
Done(t) == [text |-> t, calls |-> 0]
\* faulty variant of Deeper: the recursive call is made twice
DeeperTwice(r) == [r EXCEPT !.calls = 2 * @ + 2]
\* lines 198 and 204: return self._extract_text_fast(value)
Deeper(r) == [r EXCEPT !.calls = @ + 1]

\* faulty variant of FirstElement: data[-1]
LastElement(kids) == kids[Len(kids)].value
\* line 204: data[0]
FirstElement(kids) == kids[1].value

\* _extract_text_fast(data): the text it returns and the recursive calls it makes
RECURSIVE FlattenRun(_)
FlattenRun(d) ==
    CASE d.type = "None" -> Done(<<>>)
      [] d.type = "str" -> Done(Strip(d.text))
      [] d.type = "dict" ->
            IF HasKey(d, KeyText) THEN Done(Strip(PyStr(Get(d, KeyText))))
            ELSE IF \E i \in DOMAIN AltTextKeys : HasKey(d, AltTextKeys[i])
            THEN LET i == Min({j \in DOMAIN AltTextKeys : HasKey(d, AltTextKeys[j])})
                 IN  Done(Strip(PyStr(Get(d, AltTextKeys[i]))))
            ELSE IF Len(d.kids) = 1 /\ d.kids[1].key \notin SkipKeys
            THEN Deeper(FlattenRun(d.kids[1].value))
            ELSE Done(<<>>)
      [] d.type = "list" /\ d.kids # <<>> -> Deeper(FlattenRun(FirstElement(d.kids)))
      [] OTHER -> Done(IF IsTruthy(d) THEN Strip(PyStr(d)) ELSE <<>>)

extract_text_fast(d) == FlattenRun(d).text

\* _xml_to_dict(element); an element is [text, attrib, children], attrib the
\* entries name/value and children the entries tag/element
RECURSIVE xml_to_dict(_)
RECURSIVE AddChildren(_, _)
RECURSIVE Update(_, _)
\* line 167: result.update(element.attrib)
Update(entries, attrib) ==
    IF attrib = <<>> THEN entries
    ELSE Update(SetItem(entries, attrib[1].key, Str(attrib[1].value)), Tail(attrib))
\* lines 169-176
AddChildren(entries, children) ==
    IF children = <<>> THEN entries
    ELSE LET tag == children[1].key
             child_data == xml_to_dict(children[1].value)
             result == Dict(entries)
             next ==
                IF HasKey(result, tag)
                THEN LET cur == Get(result, tag)
                     IN  IF cur.type # "list"
                         THEN SetItem(entries, tag, List(<<cur, child_data>>))
                         ELSE SetItem(entries, tag,
                                  [cur EXCEPT !.kids = Append(@, Entry(<<>>, child_data))])
                ELSE Append(entries, Entry(tag, child_data))
         IN  AddChildren(next, Tail(children))
xml_to_dict(e) ==
    LET withText == IF Strip(e.text) # <<>>
                    THEN <<Entry(KeyText, Str(Strip(e.text)))>> ELSE <<>>
    IN  Dict(AddChildren(Update(withText, e.attrib), e.children))

\* the nesting depth of a node
RECURSIVE Depth(_)
RECURSIVE MaxOf(_)
MaxOf(S) == CHOOSE m \in S : \A k \in S : k <= m
Depth(n) ==
    IF n.kids = <<>> THEN 0
    ELSE 1 + MaxOf({Depth(n.kids[i].value) : i \in DOMAIN n.kids})

\* ---- the trees enumerated ----
Hi == <<" ", "h", "i", " ">>
Ko == <<"k", "o">>
Leaves ==
    {PyNone, Str(Hi), Str(<<>>), Str(<<" ">>), Int(<<"0">>), Int(<<"7">>),
     Dict(<<>>), List(<<>>)}
SingleKeys == {KeyText, KeyHashText, KeyLang, KeyKwd, KeyKwdGroup, KeyP}
KeyPairs == {<<KeyLang, KeyText>>, <<KeyLang, KeyKwd>>, <<KeyValue, KeyContent>>}
Fillers == {Str(<<"x">>), PyNone}
RECURSIVE Nodes(_)
Nodes(d) ==
    IF d = 0 THEN Leaves
    ELSE LET sub == Nodes(d - 1)
         IN  Leaves
             \cup {Dict(<<Entry(k, v)>>) : k \in SingleKeys, v \in sub}
             \cup {Dict(<<Entry(p[1], Str(Ko)), Entry(p[2], v)>>) : p \in KeyPairs, v \in sub}
             \cup {List(<<v>>) : v \in sub}
             \cup {List(<<v, w>>) : v \in sub, w \in Fillers}
             \cup {List(<<w, v>>) : v \in sub, w \in Fillers}

ElementTexts == {<<>>, Hi}
Attribs ==
    {<<>>, <<Entry(KeyLang, Ko)>>, <<Entry(KeyText, <<"t">>)>>,
     <<Entry(KeyId, <<"1">>), Entry(KeyLang, Ko)>>}
Tags == {KeyP, KeyText}
Element(t, a, c) == [text |-> t, attrib |-> a, children |-> c]
RECURSIVE Elements(_)
Elements(d) ==
    IF d = 0 THEN {Element(t, a, <<>>) : t \in ElementTexts, a \in Attribs}
    ELSE LET sub == Elements(d - 1)
         IN  {Element(t, a, c) :
                 t \in ElementTexts, a \in Attribs,
                 c \in {<<>>}
                       \cup {<<Entry(tag, e)>> : tag \in Tags, e \in sub}
                       \cup {<<Entry(tag, e), Entry(tag, Element(Hi, <<>>, <<>>))>> :
                                tag \in Tags, e \in sub}}

\* ---- _extract_from_path ----
\* current[key]: raises unless current is a dict that has the key
Index(cur, key) ==
    IF cur.type = "dict" /\ HasKey(cur, key)
    THEN [raised |-> FALSE, node |-> Get(cur, key)]
    ELSE [raised |-> TRUE, node |-> cur]

\* faulty variant of CanStep: the test of line 236 forgotten
CanStepUnchecked(cur, key) == TRUE
\* line 236
CanStep(cur, key) == cur.type = "dict" /\ HasKey(cur, key)

\* lines 235-239: the walk along path[:-1]; found is false for `return []`
RECURSIVE Walk(_, _)
Walk(cur, keys) ==
    IF keys = <<>> THEN [found |-> TRUE, raised |-> FALSE, node |-> cur]
    ELSE IF CanStep(cur, keys[1])
    THEN IF Index(cur, keys[1]).raised
         THEN [found |-> FALSE, raised |-> TRUE, node |-> cur]
         ELSE Walk(Index(cur, keys[1]).node, Tail(keys))
    ELSE [found |-> FALSE, raised |-> FALSE, node |-> cur]

\* lines 247-256: the non-empty texts of the value at the final key
TextsOf(keyword_data) ==
    IF keyword_data.type = "list"
    THEN LET texts == [i \in DOMAIN keyword_data.kids |->
                          extract_text_fast(keyword_data.kids[i].value)]
         IN  SelectSeq(texts, LAMBDA t : t # <<>>)
    ELSE IF extract_text_fast(keyword_data) # <<>>
         THEN <<extract_text_fast(keyword_data)>> ELSE <<>>

Items(texts) == [raised |-> FALSE, text |-> <<>>, items |-> texts, calls |-> 0]
Raised == [raised |-> TRUE, text |-> <<>>, items |-> <<>>, calls |-> 0]

\* _extract_from_path(data, path)
extract_from_path(d, keys) ==
    LET w == Walk(d, SubSeq(keys, 1, Len(keys) - 1))
    IN  IF w.raised THEN Raised
        ELSE IF ~w.found THEN Items(<<>>)
        ELSE IF w.node.type # "dict" THEN Items(<<>>)
        ELSE IF keys = <<>> THEN Raised
        ELSE IF ~HasKey(w.node, keys[Len(keys)]) THEN Items(<<>>)
        ELSE Items(TextsOf(Get(w.node, keys[Len(keys)])))

\* the paths of _extract_keywords_optimized (lines 210-222) have one or two keys
Paths == {<<KeyKwdGroup, KeyKwd>>, <<KeyKwd>>}

\* ---- _extract_basic_info: the title ----
KeyTitleGroup == <<"t", "i", "t", "l", "e", "-", "g", "r", "o", "u", "p">>
KeyArticleTitle ==
    <<"a", "r", "t", "i", "c", "l", "e", "-", "t", "i", "t", "l", "e">>
\* the placeholder of line 385, its Korean characters named by code point
Placeholder == <<"U+C81C", "U+BAA9", " ", "U+C5C6", "U+C74C">>

\* d.get(key, {})
GetOr(d, key) == IF HasKey(d, key) THEN Get(d, key) ELSE Dict(<<>>)

\* faulty variant of TitleOr: the raw text kept
TitleRaw(title_text) == title_text
\* line 385: title_text or the placeholder
TitleOr(title_text) == IF title_text # <<>> THEN title_text ELSE Placeholder

Title(t) == [raised |-> FALSE, text |-> t, items |-> <<>>, calls |-> 0]

\* lines 371-385: the title of the record whose articleInfo is given; .get on
\* a value that is no dict and [0] on an empty list raise
basic_title(article_info) ==
    IF article_info.type # "dict" THEN Raised
    ELSE LET title_group == GetOr(article_info, KeyTitleGroup)
         IN  IF title_group.type # "dict" THEN Raised
             ELSE LET article_title == GetOr(title_group, KeyArticleTitle)
                  IN  IF article_title.type = "list"
                      THEN IF article_title.kids = <<>> THEN Raised
                           ELSE Title(TitleOr(extract_text_fast(article_title.kids[1].value)))
                      ELSE Title(TitleOr(extract_text_fast(article_title)))

\* the node that has d at the end of the keys
RECURSIVE Wrap(_, _)
Wrap(d, keys) ==
    IF keys = <<>> THEN d ELSE Dict(<<Entry(keys[1], Wrap(d, Tail(keys)))>>)

\* where the node sits in the articleInfo: it is the articleInfo, its
\* title-group or its article-title
TitlePaths == {<<>>, <<KeyTitleGroup>>, <<KeyTitleGroup, KeyArticleTitle>>}

\* RISS_collector.py _extract_text (lines 79-101); str() of a model value raises nothing, so the except
\* branch has no case
RECURSIVE extract_text(_)
extract_text(value) ==
    CASE value.type = "dict" ->
            IF HasKey(value, KeyText) THEN Strip(PyStr(Get(value, KeyText)))
            ELSE IF HasKey(value, KeyHashText) THEN Strip(PyStr(Get(value, KeyHashText)))
            ELSE IF value.kids # <<>> THEN Strip(PyStr(value.kids[1].value))
            ELSE <<>>
      [] value.type = "str" -> Strip(value.text)
      [] value.type = "list" /\ value.kids # <<>> -> extract_text(value.kids[1].value)
      [] value.type = "None" -> <<>>
      [] OTHER -> Strip(PyStr(value))

\* ---- _extract_keywords_optimized ----
KeyKeywordGroup ==
    <<"k", "e", "y", "w", "o", "r", "d", "-", "g", "r", "o", "u", "p">>
KeyKeyword == <<"k", "e", "y", "w", "o", "r", "d">>
KeyKeywords == <<"k", "e", "y", "w", "o", "r", "d", "s">>
KeyOutputData == <<"o", "u", "t", "p", "u", "t", "D", "a", "t", "a">>
KeyRecord == <<"r", "e", "c", "o", "r", "d">>
KeyArticleInfo == <<"a", "r", "t", "i", "c", "l", "e", "I", "n", "f", "o">>

Source(source_data, keys) == [source_data |-> source_data, path |-> keys]

\* line 219: .get on a value that is no dict raises
DetailArticleInfo(detail) ==
    LET output_data == GetOr(detail, KeyOutputData)
        record == IF output_data.type = "dict" THEN GetOr(output_data, KeyRecord)
                  ELSE PyNone
    IN  IF output_data.type # "dict" \/ record.type # "dict"
        THEN [raised |-> TRUE, node |-> PyNone]
        ELSE [raised |-> FALSE, node |-> GetOr(record, KeyArticleInfo)]

\* a faulty variant of KeywordSources that tries the detail payload first
KeywordSourcesDetailFirst(article_info, detail) ==
    (IF IsTruthy(detail)
     THEN <<Source(DetailArticleInfo(detail).node, <<KeyKeywordGroup, KeyKeyword>>),
            Source(DetailArticleInfo(detail).node, <<KeyKwdGroup, KeyKwd>>)>>
     ELSE <<>>)
    \o <<Source(article_info, <<KeyKeywordGroup, KeyKeyword>>),
         Source(article_info, <<KeyKwdGroup, KeyKwd>>),
         Source(article_info, <<KeyKeywords>>),
         Source(article_info, <<KeyKeyword>>)>>
\* lines 210-223: keyword_sources
KeywordSources(article_info, detail) ==
    <<Source(article_info, <<KeyKeywordGroup, KeyKeyword>>),
      Source(article_info, <<KeyKwdGroup, KeyKwd>>),
      Source(article_info, <<KeyKeywords>>),
      Source(article_info, <<KeyKeyword>>)>>
    \o (IF IsTruthy(detail)
        THEN <<Source(DetailArticleInfo(detail).node, <<KeyKeywordGroup, KeyKeyword>>),
               Source(DetailArticleInfo(detail).node, <<KeyKwdGroup, KeyKwd>>)>>
        ELSE <<>>)

\* '; '.join(keywords)
RECURSIVE JoinKeywords(_)
JoinKeywords(keywords) ==
    IF keywords = <<>> THEN <<>>
    ELSE IF Len(keywords) = 1 THEN keywords[1]
    ELSE keywords[1] \o <<";", " ">> \o JoinKeywords(Tail(keywords))

\* lines 225-230: the first source whose keywords are not empty
RECURSIVE FirstKeywords(_)
FirstKeywords(sources) ==
    IF sources = <<>> THEN <<>>
    ELSE LET keywords == extract_from_path(sources[1].source_data, sources[1].path).items
         IN  IF keywords # <<>> THEN JoinKeywords(keywords)
             ELSE FirstKeywords(Tail(sources))

\* _extract_keywords_optimized(article_info, detail_info)
extract_keywords_optimized(article_info, detail) ==
    IF IsTruthy(detail) /\ DetailArticleInfo(detail).raised THEN Raised
    ELSE Title(FirstKeywords(KeywordSources(article_info, detail)))

\* ---- the arguments of _extract_keywords_optimized ----
\* what a path can hold: nothing, an element without text, one keyword, or
\* several keywords one of which is empty; the keywords carry the letter of
\* their path
Holdings == {"absent", "empty", "one", "several"}
KeywordData(holding, letter) ==
    CASE holding = "empty" -> Dict(<<>>)
      [] holding = "one" -> TextNode(<<letter>>)
      [] OTHER -> List(<<TextNode(<<letter>>), Dict(<<>>), TextNode(<<letter, "2">>)>>)
Held(holding, keys, letter) ==
    IF holding = "absent" THEN <<>>
    ELSE <<Entry(keys[1], IF Len(keys) = 1 THEN KeywordData(holding, letter)
                          ELSE Dict(<<Entry(keys[2], KeywordData(holding, letter))>>))>>
ArticleInfos ==
    {Dict(Held(h[1], <<KeyKeywordGroup, KeyKeyword>>, "a")
          \o Held(h[2], <<KeyKwdGroup, KeyKwd>>, "b")
          \o Held(h[3], <<KeyKeywords>>, "c")
          \o Held(h[4], <<KeyKeyword>>, "d")) : h \in [1..4 -> Holdings]}
DetailPayload(record) ==
    Dict(<<Entry(KeyOutputData, Dict(<<Entry(KeyRecord, record)>>))>>)
\* no detail, an empty payload, a payload of one record, and a payload whose
\* record element is repeated
DetailInfos ==
    {PyNone, Dict(<<>>), DetailPayload(List(<<Dict(<<>>), Dict(<<>>)>>))}
    \cup {DetailPayload(Dict(<<Entry(KeyArticleInfo,
                 Dict(Held(h[1], <<KeyKeywordGroup, KeyKeyword>>, "e")
                      \o Held(h[2], <<KeyKwdGroup, KeyKwd>>, "f")))>>)) :
             h \in [1..2 -> Holdings \ {"empty"}]}

InitTree ==
    /\ \/ /\ tstage = "xml"
          /\ element \in Elements(MaxDepth - 1)
          /\ data = PyNone
          /\ detail_info = PyNone
       \/ /\ tstage = "node"
          /\ element = EmptyElement
          /\ data \in Nodes(MaxDepth)
          /\ detail_info = PyNone
       \/ /\ tstage = "info"
          /\ element = EmptyElement
          /\ data \in ArticleInfos
          /\ detail_info \in DetailInfos
    /\ path = <<>>
    /\ flat = NoResult
    /\ MergeOff
    /\ NormalizeOff
    /\ DetailOff
    /\ RissOff
    /\ TitleOff

\* result = self._xml_to_dict(root)
XmlToDict ==
    /\ tstage = "xml"
    /\ data' = xml_to_dict(element)
    /\ tstage' = "node"
    /\ UNCHANGED <<element, path, detail_info, flat, mergeVars, normVars, detailVars, rissVars, titleVars>>

\* self._extract_text_fast(data)
ExtractText ==
    /\ tstage = "node"
    /\ flat' = [raised |-> FALSE, text |-> FlattenRun(data).text, items |-> <<>>,
                calls |-> FlattenRun(data).calls]
    /\ tstage' = "text"
    /\ UNCHANGED <<element, data, path, detail_info, mergeVars, normVars, detailVars, rissVars, titleVars>>

\* self._extract_from_path(data, path)
ExtractFromPath ==
    /\ tstage = "node"
    /\ \E keys \in Paths :
          /\ path' = keys
          /\ flat' = extract_from_path(data, keys)
    /\ tstage' = "path"
    /\ UNCHANGED <<element, data, detail_info, mergeVars, normVars, detailVars, rissVars, titleVars>>

\* the title _extract_basic_info gives the record whose articleInfo holds the node
BasicTitle ==
    /\ tstage = "node"
    /\ \E keys \in TitlePaths :
          /\ path' = keys
          /\ flat' = basic_title(Wrap(data, keys))
    /\ tstage' = "title"
    /\ UNCHANGED <<element, data, detail_info, mergeVars, normVars, detailVars, rissVars, titleVars>>

\* self._extract_keywords_optimized(article_info, detail_info)
ExtractKeywords ==
    /\ tstage = "info"
    /\ flat' = extract_keywords_optimized(data, detail_info)
    /\ tstage' = "keywords"
    /\ UNCHANGED <<element, data, path, detail_info, mergeVars, normVars, detailVars, rissVars, titleVars>>

\* ImprovedRISSAnalyzer._extract_text(data), on the same values
RissExtractText ==
    /\ tstage = "node"
    /\ flat' = Title(extract_text(data))
    /\ tstage' = "risstext"
    /\ UNCHANGED <<element, data, path, detail_info, mergeVars, normVars, detailVars, rissVars, titleVars>>

NextTree ==
    \/ XmlToDict
    \/ ExtractText
    \/ ExtractFromPath
    \/ BasicTitle
    \/ ExtractKeywords
    \/ RissExtractText

SpecTree == InitTree /\ [][NextTree]_vars

(***************************************************************************)
(* RISS_collector.py ImprovedRISSAnalyzer                                  *)
(* A response is the dict _xml_to_dict makes of the answer's root: its     *)
(* head and its metadata are dicts, and metadata is a list of dicts when   *)
(* the answer holds more than one record.  An article is modelled by its   *)
(* title and its url; the other fields are extracted the same way and no   *)
(* step of the search reads them.                                          *)
(***************************************************************************)
KeyHead == <<"h", "e", "a", "d">>
KeyMetadata == <<"m", "e", "t", "a", "d", "a", "t", "a">>
KeyError == <<"E", "r", "r", "o", "r">>
KeyRissTitle == <<"r", "i", "s", "s", ".", "t", "i", "t", "l", "e">>
KeyUrl == <<"u", "r", "l">>

\* d.get(key, default)
GetDefault(d, key, default) == IF HasKey(d, key) THEN Get(d, key) ELSE default

\* lines 311-322: the two fields of the article dict the model keeps
ArticleOf(record) ==
    [title |-> extract_text(GetDefault(record, KeyRissTitle, Str(<<>>))),
     url |-> extract_text(GetDefault(record, KeyUrl, Str(<<>>)))]

\* a faulty variant of KeepArticle that keeps every article
KeepArticleAlways(article) == TRUE
\* line 341: if article['title']
KeepArticle(article) == article.title # <<>>

\* lines 309-346: the loop over the records
RECURSIVE ArticlesOf(_)
ArticlesOf(recs) ==
    IF recs = <<>> THEN <<>>
    ELSE LET article == ArticleOf(recs[1])
         IN  (IF KeepArticle(article) THEN <<article>> ELSE <<>>) \o ArticlesOf(Tail(recs))

\* lines 305-307: a single record is wrapped in a list
RecordsOf(metadata) ==
    IF metadata.type = "dict" THEN <<metadata>>
    ELSE [i \in DOMAIN metadata.kids |-> metadata.kids[i].value]

\* lines 298-300: the answer's error code
ErrorOf(response) ==
    extract_text(GetDefault(Get(response, KeyHead), KeyError, Str(<<>>)))

\* _extract_articles_from_response
extract_articles_from_response(response) ==
    IF response.kids = <<>> THEN <<>>
    ELSE IF ~(HasKey(response, KeyHead) /\ HasKey(response, KeyMetadata)) THEN <<>>
    ELSE IF ErrorOf(response) # <<"0">> THEN <<>>
    ELSE ArticlesOf(RecordsOf(Get(response, KeyMetadata)))

\* _execute_search: a request that fails, or whose answer is not status 200
\* or not XML, gives no article
HttpFailure == PyNone
execute_search(answer) ==
    IF answer = HttpFailure THEN <<>> ELSE extract_articles_from_response(answer)

\* ---- answers of the search service ----
TitleA == TextNode(<<"A">>)
TitleB == TextNode(<<"B">>)
\* an element without text
Blank == Dict(<<>>)
Url1 == TextNode(<<"u1">>)
Url2 == TextNode(<<"u2">>)
RissRecords ==
    { Dict(<<Entry(KeyRissTitle, TitleA), Entry(KeyUrl, Url1)>>),
      Dict(<<Entry(KeyRissTitle, TitleB), Entry(KeyUrl, Url1)>>),
      Dict(<<Entry(KeyRissTitle, TitleA), Entry(KeyUrl, Url2)>>),
      Dict(<<Entry(KeyRissTitle, Blank), Entry(KeyUrl, Url1)>>),
      Dict(<<Entry(KeyUrl, Url2)>>) }
\* one record is a dict, several a list
Metadatas ==
    RissRecords \cup {List(recs) : recs \in SeqUpTo(RissRecords, MaxHits) \ SeqUpTo(RissRecords, 1)}
Heads ==
    { Dict(<<Entry(KeyError, TextNode(<<"0">>))>>),
      Dict(<<Entry(KeyError, TextNode(<<"1", "0", "0">>))>>),
      Dict(<<>>) }
RissResponses ==
    {Dict(<<>>)}
    \cup {Dict(<<Entry(KeyHead, h)>>) : h \in Heads}
    \cup {Dict(<<Entry(KeyHead, h), Entry(KeyMetadata, md)>>) : h \in Heads, md \in Metadatas}
\* what one search request can return
SearchOutcomes == {execute_search(a) : a \in RissResponses \cup {HttpFailure}}
\* what the request for one year can return
YearOutcomes == {o \in SearchOutcomes : Len(o) < MaxHits}
\* the years start_year..end_year
YearSlices == {1, 2}
\* line 104: the default of max_results, and two small limits
MaxResultsValues == {1, 2, 200}

\* _search_by_years: the loop stops asking once it has remaining_count
\* articles (lines 207-229)
RECURSIVE YearLoop(_, _, _)
YearLoop(results, year_results, remaining_count) ==
    IF year_results = <<>> \/ Len(results) >= remaining_count THEN results
    ELSE YearLoop(results \o year_results[1], Tail(year_results), remaining_count)
search_by_years(year_results, remaining_count) ==
    YearLoop(<<>>, year_results, remaining_count)

\* a faulty variant of ExistingUrls that looks at the first record only
ExistingUrlsFirst(results) == {results[i].url : i \in DOMAIN results \cap {1}}
\* lines 141, 155: existing_urls
ExistingUrls(results) == {results[i].url : i \in DOMAIN results}
IsNew(r, existing_urls) == r.url \notin existing_urls
\* a faulty variant of NewResults that filters nothing
NewResultsUnfiltered(results, existing_urls) == results
\* lines 142, 156: new_results
NewResults(results, existing_urls) ==
    SelectSeq(results, LAMBDA r : IsNew(r, existing_urls))

\* what a strategy got and added, and whether each of its requests got at
\* most the rowcount it asked for
Step(got, added, within) == [got |-> got, added |-> added, within |-> within]

\* lines 181, 198, 222: rowcount is min(count, 100)
RowCount(count) == IF count < RowLimit THEN count ELSE RowLimit
\* line 206: per_year
PerYear(remaining_count) ==
    LET share == remaining_count \div Cardinality(YearSlices)
    IN  IF share > MinPerYear THEN share ELSE MinPerYear

InitRiss ==
    /\ MergeOff
    /\ NormalizeOff
    /\ DetailOff
    /\ TreeOff
    /\ TitleOff
    /\ api_response = PyNone /\ extracted = <<>>
    /\ max_results \in MaxResultsValues
    /\ all_results = <<>> /\ contributed = <<>>
    /\ rstage = "start"

\* one call of _extract_articles_from_response
ExtractArticles ==
    /\ rstage = "start"
    /\ \E response \in RissResponses :
         /\ api_response' = response
         /\ extracted' = extract_articles_from_response(response)
    /\ rstage' = "extracted"
    /\ UNCHANGED <<max_results, all_results, contributed>>
    /\ UNCHANGED <<mergeVars, normVars, detailVars, treeVars, titleVars>>

\* search_with_multiple_strategies, strategy 1 (lines 125-130)
TitleSearch ==
    /\ rstage = "start"
    /\ \E title_results \in SearchOutcomes :
         /\ all_results' = all_results \o title_results
         /\ contributed' = <<Step(title_results, title_results,
                                 Len(title_results) <= RowCount(TitleCount))>>
    /\ rstage' = "keyword"
    /\ UNCHANGED <<api_response, extracted, max_results>>
    /\ UNCHANGED <<mergeVars, normVars, detailVars, treeVars, titleVars>>

\* strategy 2 (lines 133-145)
KeywordSearch ==
    /\ rstage = "keyword"
    /\ IF Len(all_results) < max_results
       THEN \E keyword_results \in SearchOutcomes :
              LET new_results == NewResults(keyword_results, ExistingUrls(all_results))
              IN  /\ all_results' = all_results \o new_results
                  /\ contributed' = Append(contributed,
                        Step(keyword_results, new_results,
                             Len(keyword_results) <= RowCount(max_results - Len(all_results))))
       ELSE /\ all_results' = all_results
            /\ contributed' = Append(contributed, Step(<<>>, <<>>, TRUE))
    /\ rstage' = "yearly"
    /\ UNCHANGED <<api_response, extracted, max_results>>
    /\ UNCHANGED <<mergeVars, normVars, detailVars, treeVars, titleVars>>

\* strategy 3 and the return (lines 148-167)
YearlySearch ==
    /\ rstage = "yearly"
    /\ IF Len(all_results) < max_results
       THEN \E year_results \in [YearSlices -> YearOutcomes] :
              LET yearly_results ==
                      search_by_years(year_results, max_results - Len(all_results))
                  new_results == NewResults(yearly_results, ExistingUrls(all_results))
              IN  /\ all_results' = all_results \o new_results
                  /\ contributed' = Append(contributed,
                        Step(yearly_results, new_results,
                             \A y \in YearSlices :
                                Len(year_results[y]) <=
                                    RowCount(PerYear(max_results - Len(all_results)))))
       ELSE /\ all_results' = all_results
            /\ contributed' = Append(contributed, Step(<<>>, <<>>, TRUE))
    /\ rstage' = "done"
    /\ UNCHANGED <<api_response, extracted, max_results>>
    /\ UNCHANGED <<mergeVars, normVars, detailVars, treeVars, titleVars>>

NextRiss ==
    \/ ExtractArticles
    \/ TitleSearch
    \/ KeywordSearch
    \/ YearlySearch

SpecRiss == InitRiss /\ [][NextRiss]_vars

(***************************************************************************)
(* app.py normalize_title, called on its own                               *)
(***************************************************************************)
TitleChars == {"A", "b", "1", " ", "\t", "-", "U+AC00", KelvinSign}
\* a string, or a cell that is no string (NaN is a float)
TitleArguments == SeqUpTo(TitleChars, MaxTitleLen) \cup {NaN}

InitTitle ==
    /\ MergeOff
    /\ NormalizeOff
    /\ DetailOff
    /\ TreeOff
    /\ RissOff
    /\ title \in TitleArguments
    /\ title_key = <<>>
    /\ kstage = "given"

NormalizeTitle ==
    /\ kstage = "given"
    /\ title_key' = normalize_title(title)
    /\ kstage' = "done"
    /\ UNCHANGED <<title, mergeVars, normVars, detailVars, treeVars, rissVars>>

NextTitle == NormalizeTitle

SpecTitle == InitTitle /\ [][NextTitle]_vars

(***************************************************************************)
(* Claims about merge_frames.  They are stated on the input tables, by     *)
(* position in the concatenation "rows of df_kci, then rows of df_riss".   *)
(***************************************************************************)
KciCount == IF Usable(df_kci) THEN Len(df_kci.rows) ELSE 0
RissCount == IF Usable(df_riss) THEN Len(df_riss.rows) ELSE 0
InputCount == KciCount + RissCount
FromKci(i) == i <= KciCount
InputRow(i) == IF FromKci(i) THEN df_kci.rows[i] ELSE df_riss.rows[i - KciCount]

\* the input column a canonical column is taken from
InputColumn(i, c) ==
    IF FromKci(i) THEN (IF c = "venue" THEN "journal_name" ELSE c)
    ELSE (IF c = "venue" THEN "publisher" ELSE IF c = "authors" THEN "author" ELSE c)
Provided(i, c) == InputColumn(i, c) \in DOMAIN InputRow(i)
\* the input value of a canonical column, the empty string when the table lacks it
InputCell(i, c) == IF Provided(i, c) THEN InputRow(i)[InputColumn(i, c)] ELSE EmptyStr

\* first record of each doi, then among those the first of each title key
FirstOfDoi ==
    LET doi == [i \in 1..InputCount |-> InputCell(i, "doi")]
    IN  {i \in 1..InputCount : \A j \in 1..(i - 1) : doi[j] # doi[i]}
FirstOfTitleKey ==
    LET first == FirstOfDoi
        key == [i \in 1..InputCount |-> normalize_title(InputCell(i, "title"))]
    IN  {i \in first : \A j \in first : j < i => key[j] # key[i]}
\* the input positions of the records of the merged table, in order
Origins == SelectRows([i \in 1..InputCount |-> i], FirstOfTitleKey)

FourDigitsAt(s, i) == i >= 1 /\ i + 3 <= Len(s) /\ \A k \in 0..3 : IsDigit(s[i + k])
HasYearRun(s) == \E i \in 1..Len(s) : FourDigitsAt(s, i)
\* y is the first run of four digits of s
IsFirstYearRun(s, y) ==
    \E i \in 1..Len(s) :
        /\ FourDigitsAt(s, i)
        /\ \A j \in 1..(i - 1) : ~FourDigitsAt(s, j)
        /\ y = SubSeq(s, i, i + 3)

\* C1: dedup pass 1 never drops a record whose doi is empty: every record of the
\* concatenation with an empty doi is among the records the doi pass keeps.
C1_EmptyDoiNeverDropped ==
    (mstage = "merged" /\ InputCount > 0) =>
        LET all == NormalizeYears(Concatenated(df_kci, df_riss))
            pass1 == DedupDoi(all)
        IN  \A i \in DOMAIN all.rows :
                all.rows[i]["doi"] = EmptyStr =>
                    \E j \in DOMAIN pass1.rows : pass1.rows[j] = all.rows[i]

\* C2: the merged table holds no two records with the same non-empty doi and no
\* two records with equal normalized-title keys; two records with empty doi and the
\* titles "Study of X" and "study of x" leave exactly one.
C2_NoDuplicateKeys ==
    (mstage # "input") =>
        /\ \A i, j \in DOMAIN merged.rows :
              i < j =>
                /\ merged.rows[i]["doi"] # EmptyStr => merged.rows[i]["doi"] # merged.rows[j]["doi"]
                /\ normalize_title(merged.rows[i]["title"]) # normalize_title(merged.rows[j]["title"])
                /\ ~({merged.rows[i]["title"], merged.rows[j]["title"]} = {StudyOfX, studyofx})
        /\ ( /\ InputCount = 2
             /\ {InputCell(1, "title"), InputCell(2, "title")} = {StudyOfX, studyofx}
             /\ InputCell(1, "doi") = EmptyStr /\ InputCell(2, "doi") = EmptyStr )
           => Len(merged.rows) = 1

\* C2 witness: the two case-variant titles came in with different dois and the
\* title pass removed the second one.
C2_Witness ==
    /\ mstage = "merged"
    /\ InputCount = 2
    /\ InputCell(1, "title") = StudyOfX /\ InputCell(1, "doi") # EmptyStr
    /\ InputCell(2, "title") = studyofx /\ InputCell(2, "doi") = EmptyStr
    /\ FirstOfDoi = {1, 2}
    /\ Len(merged.rows) = 1

\* C3 (as claimed): merge(merge(A,B), []) has the same records with the same field
\* values, the source tag and pub_year included, in the same order.
C3_Idempotent ==
    (mstage = "remerged") =>
        /\ Len(remerged.rows) = Len(merged.rows)
        /\ \A k \in DOMAIN merged.rows : \A c \in CanonicalColumns :
              remerged.rows[k][c] = merged.rows[k][c]

\* C3 (amended): merge(merge(A,B), []) has the same records in the same order with
\* the same title, authors, venue, pub_year, url, doi, abstract and keywords; every
\* record comes back tagged KCI and only the nine canonical columns remain.
C3_IdempotentUpToSource ==
    (mstage = "remerged") =>
        /\ Len(remerged.rows) = Len(merged.rows)
        /\ remerged.cols = CanonicalColumns
        /\ \A k \in DOMAIN merged.rows :
              /\ \A c \in CanonicalColumns \ {"source"} : remerged.rows[k][c] = merged.rows[k][c]
              /\ remerged.rows[k]["source"] = KCI

\* C3 witness: a merged table with a KCI and a RISS record and a missing year
\* was merged again.
C3_Witness ==
    /\ mstage = "remerged"
    /\ Len(merged.rows) >= 2
    /\ \E k \in DOMAIN merged.rows : merged.rows[k]["source"] = RISS
    /\ \E k \in DOMAIN merged.rows : merged.rows[k]["pub_year"] = NaN
    /\ \E k \in DOMAIN merged.rows : merged.rows[k]["pub_year"] = Year2023

\* C4: the merged records are, in the order of the concatenation, exactly the
\* records that are first of their doi and, among those, first of their title key.
C4_StableOrder ==
    (mstage # "input") =>
        LET o == Origins
        IN  /\ Len(merged.rows) = Len(o)
            /\ \A k \in DOMAIN merged.rows :
                  /\ merged.rows[k]["title"] = InputCell(o[k], "title")
                  /\ merged.rows[k]["doi"] = InputCell(o[k], "doi")
                  /\ merged.rows[k]["source"] = (IF FromKci(o[k]) THEN KCI ELSE RISS)
            /\ \A k \in DOMAIN merged.rows : k > 1 => o[k - 1] < o[k]

\* C4 witness: a record in the middle was dropped, records of both tables survive.
C4_Witness ==
    /\ mstage = "merged"
    /\ InputCount = 3
    /\ FirstOfTitleKey = {1, 3}
    /\ merged.rows[1]["source"] = KCI
    /\ merged.rows[2]["source"] = RISS

\* C5 (as claimed): every record's pub_year is the first run of four digits of its
\* input pub_year, and the empty string when the input has no such run.
C5_YearOrEmpty ==
    (mstage # "input") =>
        LET o == Origins
        IN  /\ Len(merged.rows) = Len(o)
            /\ \A k \in DOMAIN merged.rows :
                  LET raw == InputCell(o[k], "pub_year")
                      out == merged.rows[k]["pub_year"]
                  IN  /\ HasYearRun(raw) => IsFirstYearRun(raw, out)
                      /\ ~HasYearRun(raw) => out = EmptyStr
                      /\ raw \in {Year2023, Year2023Dot05, Year2023Nyeon} => out = Year2023

\* C5 (amended): every record's pub_year is the first run of four digits of its
\* input pub_year, and a missing value (NaN) when the input has no such run.
C5_YearOrMissing ==
    (mstage # "input") =>
        LET o == Origins
        IN  /\ Len(merged.rows) = Len(o)
            /\ \A k \in DOMAIN merged.rows :
                  LET raw == InputCell(o[k], "pub_year")
                      out == merged.rows[k]["pub_year"]
                  IN  /\ HasYearRun(raw) => IsFirstYearRun(raw, out)
                      /\ ~HasYearRun(raw) => out = NaN
                      /\ raw \in {Year2023, Year2023Dot05, Year2023Nyeon} => out = Year2023
                      /\ raw = YearNA => out = NaN

\* C5 witness: a year with trailing text was cut to its digits next to a record
\* whose pub_year holds no year.
C5_Witness ==
    /\ mstage = "merged"
    /\ Len(merged.rows) = Len(Origins)
    /\ \E k \in DOMAIN merged.rows :
          /\ InputCell(Origins[k], "pub_year") = Year2023Dot05
          /\ merged.rows[k]["pub_year"] = Year2023
    /\ \E k \in DOMAIN merged.rows :
          /\ InputCell(Origins[k], "pub_year") = YearNA
          /\ merged.rows[k]["pub_year"] = NaN

\* C6 (as claimed): records of A are tagged KCI and records of B RISS; every merged
\* table has the column set merge([], []) has, and every field a record's source
\* did not provide is the empty string.
C6_OneColumnSet ==
    (mstage # "input") =>
        LET o == Origins
        IN  /\ Len(merged.rows) = Len(o)
            /\ \A k \in DOMAIN merged.rows :
                  merged.rows[k]["source"] = (IF FromKci(o[k]) THEN KCI ELSE RISS)
            /\ merged.cols = merge_frames(EmptyFrame, EmptyFrame).cols
            /\ \A k \in DOMAIN merged.rows : \A c \in merged.cols \ {"source"} :
                  ~Provided(o[k], c) => merged.rows[k][c] = EmptyStr
            /\ InputCount = 0 => merged.rows = <<>>

\* C6 (amended): records of A are tagged KCI and records of B RISS; the merged table
\* has the nine canonical columns, and doc_type and material_type besides exactly
\* when B is not empty; a canonical field other than pub_year that the record's
\* table lacks is the empty string and a provided one is copied, a lacking pub_year
\* is NaN, doc_type and material_type of a record of A are NaN; merge([], []) is
\* empty with the nine canonical columns.
C6_ColumnSets ==
    (mstage # "input") =>
        LET o == Origins
        IN  /\ Len(merged.rows) = Len(o)
            /\ merged.cols = (IF RissCount > 0 THEN RissKeepColumns ELSE CanonicalColumns)
            /\ \A k \in DOMAIN merged.rows :
                  LET i == o[k]
                      row == merged.rows[k]
                  IN  /\ row["source"] = (IF FromKci(i) THEN KCI ELSE RISS)
                      /\ \A c \in CanonicalColumns \ {"source", "pub_year"} :
                            row[c] = InputCell(i, c)
                      /\ ~Provided(i, "pub_year") => row["pub_year"] = NaN
                      /\ \A c \in merged.cols \ CanonicalColumns :
                            row[c] = (IF FromKci(i) THEN NaN ELSE InputCell(i, c))
            /\ InputCount = 0 => (merged.rows = <<>> /\ merged.cols = CanonicalColumns)

\* C6 witness: a KCI table lacking canonical columns was merged with a RISS table
\* and a record of each survives.
C6_Witness ==
    /\ mstage = "merged"
    /\ df_kci.cols = KciSparseColumns
    /\ \E k \in DOMAIN merged.rows : merged.rows[k]["source"] = KCI
    /\ \E k \in DOMAIN merged.rows : merged.rows[k]["source"] = RISS

(***************************************************************************)
(* Claims about QueryNormalizer.normalize                                  *)
(***************************************************************************)
\* C7: for a non-empty query the bundle contains the query, has at most 12 terms,
\* has no duplicate terms and is sorted by non-decreasing term length.
C7_BundleHasQuery ==
    (nstage = "normalized" /\ query # <<>>) =>
        /\ \E i \in DOMAIN bundle : bundle[i] = query
        /\ Len(bundle) <= 12
        /\ \A i, j \in DOMAIN bundle : i < j => bundle[i] # bundle[j]
        /\ \A i, j \in DOMAIN bundle : i < j => Len(bundle[i]) <= Len(bundle[j])

(***************************************************************************)
(* Claims about the detail enrichment                                      *)
(***************************************************************************)
InBatch == dstage \in {"batch", "returned"} /\ tasks # <<>>

\* the lookups of the batch that name the identifier
LookupsOf(id) == {t \in DOMAIN article_ids : article_ids[t] = id}

\* the lookups that executed the cache write under the key
WritersOf(key) == {t \in DOMAIN tasks : <<t, key>> \in written}

\* the lookup went to the network and failed
Failed(t) == tasks[t].pc = "done" /\ tasks[t].result = None

\* C8 as stated: once an identifier is in the cache (it was fetched successfully)
\* no lookup requests it from the network again, also within a batch that names
\* it more than once.
C8_NoRequestOnceCached ==
    [][\A t \in DOMAIN tasks :
          (dstage = "batch" /\ tasks[t].pc = "miss" /\ tasks'[t].pc # "miss")
              => article_ids[t] \notin DOMAIN detail_cache]_vars

\* C8 amended: a lookup whose cache check finds the identifier makes no network
\* call and returns a payload the cache held for it; an identifier cached when
\* the batch starts is not requested during the batch; every request of a lookup
\* names the lookup's own identifier.
C8_CacheHitServes ==
    InBatch =>
        /\ \A r \in requested :
              r[2] \notin DOMAIN cache_at_start /\ r[2] = article_ids[r[1]]
        /\ \A t \in DOMAIN tasks :
              tasks[t].hit =>
                  /\ tasks[t].pc = "done"
                  /\ <<t, article_ids[t]>> \notin requested
                  /\ \/ /\ article_ids[t] \in DOMAIN cache_at_start
                        /\ tasks[t].result = cache_at_start[article_ids[t]]
                     \/ \E u \in WritersOf(article_ids[t]) :
                           tasks[t].result = tasks[u].result

\* a batch on a warm cache: one identifier is served from the cache, the other
\* is fetched
C8_Witness ==
    /\ dstage = "returned"
    /\ Len(tasks) = 2
    /\ tasks[1].hit /\ article_ids[1] \in DOMAIN cache_at_start
    /\ tasks[1].result = Detail1
    /\ ~tasks[2].hit /\ requested = {<<2, article_ids[2]>>}

\* C9 as stated: no two lookups of one batch both execute the cache write for
\* one identifier.
C9_OneWriterPerKey ==
    InBatch => \A key \in Ids : Cardinality(WritersOf(key)) <= 1

\* C9 amended: a lookup writes the cache only under its own identifier, so the
\* lookups that write one key are lookups the batch submitted for that
\* identifier: one writer at most when the batch names the identifier once.
C9_WritersNameTheKey ==
    InBatch =>
        /\ \A w \in written : w[2] = article_ids[w[1]] /\ ~tasks[w[1]].hit
        /\ \A key \in Ids : Cardinality(WritersOf(key)) <= Cardinality(LookupsOf(key))

\* a batch that names one identifier twice: both lookups missed the cache and
\* both wrote it
C9_Witness ==
    /\ dstage = "returned"
    /\ Len(tasks) = 2
    /\ article_ids[1] = article_ids[2]
    /\ written = {<<1, article_ids[1]>>, <<2, article_ids[2]>>}
    /\ Cardinality(WritersOf(article_ids[1])) = 2

\* C10 as stated: when a lookup failed, the batch still returns every other
\* lookup that succeeded, and the record of the failed lookup has its first-pass
\* keywords and abstract.
C10_FailedKeepsOthersReturned ==
    (dstage = "returned" /\ need # <<>>) =>
        \A t \in DOMAIN tasks :
            /\ Failed(t) => articles[need[t]] = first_pass[need[t]]
            /\ ( /\ \E u \in DOMAIN tasks :
                        Failed(u) /\ article_ids[u] # article_ids[t]
                  /\ tasks[t].result # None )
                   => article_ids[t] \in DOMAIN details

\* C10 amended: a failed lookup does not stop the batch: every lookup runs to
\* its end, an identifier is returned exactly when one of its lookups yielded a
\* non-empty payload (with the payload of one of them), and a record whose
\* identifier is not returned keeps its first-pass keywords and abstract.
C10_FailuresSwallowed ==
    (dstage = "returned" /\ tasks # <<>>) =>
        /\ \A t \in DOMAIN tasks : tasks[t].pc = "done" /\ t \in collected
        /\ DOMAIN details =
              {article_ids[t] : t \in {u \in DOMAIN tasks : Truthy(tasks[u].result)}}
        /\ \A id \in DOMAIN details :
              \E t \in LookupsOf(id) :
                  Truthy(tasks[t].result) /\ details[id] = tasks[t].result
        /\ Len(articles) = Len(first_pass)
        /\ \A k \in DOMAIN need :
              article_ids[k] \notin DOMAIN details
                  => articles[need[k]] = first_pass[need[k]]

\* one lookup failed and its record is as before, the other succeeded and its
\* record got the detail's keywords and abstract
C10_Witness ==
    /\ dstage = "returned"
    /\ Len(need) = 2
    /\ Failed(1) /\ <<1, article_ids[1]>> \in requested
    /\ articles[need[1]] = first_pass[need[1]]
    /\ article_ids[2] # article_ids[1]
    /\ tasks[2].result = Detail1 /\ details = Put(EmptyDict, article_ids[2], Detail1)
    /\ first_pass[need[2]].keywords = "" /\ articles[need[2]].keywords = "k1"
    /\ first_pass[need[2]].abstract = "" /\ articles[need[2]].abstract = "a1"

\* C11: enrichment never overwrites a non-empty value: a keywords (abstract)
\* that was non-empty after the first pass is the same after enrichment, and a
\* field that changed was empty and is now non-empty.
C11_NoOverwrite ==
    (dstage = "returned" /\ articles # <<>>) =>
        /\ DOMAIN articles = DOMAIN first_pass
        /\ \A i \in DOMAIN articles :
              /\ articles[i].article_id = first_pass[i].article_id
              /\ first_pass[i].keywords # "" => articles[i].keywords = first_pass[i].keywords
              /\ first_pass[i].abstract # "" => articles[i].abstract = first_pass[i].abstract
              /\ articles[i].keywords # first_pass[i].keywords => articles[i].keywords # ""
              /\ articles[i].abstract # first_pass[i].abstract => articles[i].abstract # ""

\* a record with an abstract but no keywords meets a detail that has both: the
\* keywords are filled, the abstract stays
C11_Witness ==
    /\ dstage = "returned"
    /\ \E k \in DOMAIN need :
          /\ details # EmptyDict
          /\ article_ids[k] \in DOMAIN details
          /\ details[article_ids[k]] = Detail1
          /\ first_pass[need[k]].keywords = "" /\ first_pass[need[k]].abstract = "a0"
          /\ articles[need[k]].keywords = "k1" /\ articles[need[k]].abstract = "a0"

\* the lookups that are between their cache check and their end
Running == {t \in DOMAIN tasks : tasks[t].pc \in {"miss", "fetched"}}

\* C12: at most max_workers lookups of a batch run at the same time, the batch
\* returns only when every submitted lookup has completed, and no record is
\* enriched while the batch is still running.
C12_BoundedThenComplete ==
    InBatch =>
        /\ Cardinality(Running) <= max_workers
        /\ dstage = "batch" => articles = first_pass
        /\ dstage = "returned" =>
              /\ Running = {}
              /\ \A t \in DOMAIN tasks : tasks[t].pc = "done"
              /\ collected = DOMAIN tasks
              /\ Len(tasks) = Len(article_ids)

\* a batch of two lookups on one worker: the first has its answer and is about
\* to write the cache, the second waits in the queue
C12_Witness ==
    /\ dstage = "batch"
    /\ max_workers = 1
    /\ Len(tasks) = 2
    /\ tasks[1].pc = "fetched" /\ tasks[2].pc = "queued"

\* C13: when normalizing or enriching one record of a response raises, every
\* other record of the response is still normalized and in the output, and
\* every other record whose detail was returned is still enriched.
C13_OtherRecordsSurvive ==
    (dstage = "returned" /\ records # <<>>) =>
        LET good == SelectSeq(records, LAMBDA r : ~Raises(r))
        IN  /\ Len(articles) = Len(good)
            /\ \A i \in DOMAIN good : first_pass[i] = extract_basic_info(good[i])
            /\ \A k \in DOMAIN need :
                  ( /\ article_ids[k] \in DOMAIN details
                    /\ ~WriteBackRaises(details[article_ids[k]]) )
                      => articles[need[k]] =
                            Enhanced(first_pass[need[k]], details[article_ids[k]])

(***************************************************************************)
(* Claims about the tree flattener and the extraction functions            *)
(***************************************************************************)
\* C14: the text extracted from a node that carries direct text is that text
\* trimmed, whatever attributes the element had: for an element with text and
\* attributes, extractText(_xml_to_dict(element)) is the element's text trimmed.
C14_DirectTextWins ==
    (tstage = "text" /\ element.children = <<>> /\ Strip(element.text) # <<>>)
        => flat.text = Strip(element.text)

\* C15: extractText of a list is extractText of its first element, whatever
\* follows it, and the empty string for the empty list.
C15_FirstElementOnly ==
    (tstage = "text" /\ data.type = "list") =>
        flat.text = IF data.kids = <<>> THEN <<>>
                    ELSE extract_text_fast(data.kids[1].value)

\* a list of two different texts gives the first
C15_Witness ==
    /\ tstage = "text"
    /\ data = List(<<Str(Hi), Str(<<"x">>)>>)
    /\ flat.text = <<"h", "i">>

\* C16: extractText returns for every tree, makes at most as many recursive
\* calls as the tree is deep, and changes neither its input nor the analyzer.
C16_BoundedAndPure ==
    /\ [](tstage = "text" => flat.calls <= Depth(data) /\ ~flat.raised)
    /\ [][(tstage = "node" /\ tstage' = "text")
             => /\ data' = data /\ element' = element
                /\ detail_cache' = detail_cache]_vars

\* a tree of the full depth followed to its bottom
C16_Witness ==
    /\ tstage = "text"
    /\ Depth(data) = MaxDepth
    /\ flat.calls = MaxDepth
    /\ flat.text = <<"h", "i">>

\* every key of the path is there, each in a dict
RECURSIVE Resolves(_, _)
Resolves(node, keys) ==
    \/ keys = <<>>
    \/ /\ node.type = "dict" /\ HasKey(node, keys[1])
       /\ Resolves(Get(node, keys[1]), Tail(keys))

\* C17: extractByPath never raises, and it returns the empty sequence when a key
\* of the path is missing or a value before the final key is not a dict.
C17_MissingKeyGivesEmpty ==
    tstage = "path" =>
        /\ ~flat.raised
        /\ ~Resolves(data, path) => flat.items = <<>>

\* the first key of a two-key path leads to a string, not a dict
C17_Witness ==
    /\ tstage = "path"
    /\ path = <<KeyKwdGroup, KeyKwd>>
    /\ data = Dict(<<Entry(KeyKwdGroup, Str(Hi))>>)
    /\ flat.items = <<>> /\ ~flat.raised

\* C20: every record _extract_basic_info produces has a non-empty title: the
\* placeholder when the title is absent or has no text, and the text of the
\* first element when the title is a list.
C20_TitleNeverEmpty ==
    (tstage = "title" /\ ~flat.raised) =>
        LET info == Wrap(data, path)
            absent == \/ ~HasKey(info, KeyTitleGroup)
                      \/ ~HasKey(Get(info, KeyTitleGroup), KeyArticleTitle)
        IN  /\ flat.text # <<>>
            /\ absent => flat.text = Placeholder
            /\ (path = <<KeyTitleGroup, KeyArticleTitle>> /\ data.type = "list")
                  => flat.text = TitleOr(extract_text_fast(data.kids[1].value))
            /\ (path = <<KeyTitleGroup, KeyArticleTitle>> /\ data.type # "list")
                  => flat.text = TitleOr(extract_text_fast(data))

\* a title that is a list whose first element has no text: the placeholder,
\* although the second element has text
C20_Witness ==
    /\ tstage = "title"
    /\ path = <<KeyTitleGroup, KeyArticleTitle>>
    /\ data = List(<<PyNone, Str(Hi)>>)
    /\ flat.text = Placeholder

(***************************************************************************)
(* Claims about the RISS collector                                         *)
(***************************************************************************)
ErrorFree(response) ==
    /\ HasKey(response, KeyHead) /\ HasKey(response, KeyMetadata)
    /\ ErrorOf(response) = <<"0">>
TitleOf(record) == extract_text(GetDefault(record, KeyRissTitle, Str(<<>>)))
Titled(recs) == SelectSeq(recs, LAMBDA record : TitleOf(record) # <<>>)

\* C18: _extract_articles_from_response discards a record if and only if its
\* extracted title is empty: the output of an error-free response is, in input
\* order, one article per record whose extracted title is non-empty, and no
\* output article has an empty title.
C18_DiscardIffNoTitle ==
    rstage = "extracted" =>
        /\ \A j \in DOMAIN extracted : extracted[j].title # <<>>
        /\ ErrorFree(api_response) =>
              LET kept == Titled(RecordsOf(Get(api_response, KeyMetadata)))
              IN  /\ Len(extracted) = Len(kept)
                  /\ \A j \in DOMAIN kept : extracted[j] = ArticleOf(kept[j])
\* an error-free response of two records, the first without a title: only the
\* second is in the output
C18_Witness ==
    /\ rstage = "extracted"
    /\ ErrorFree(api_response)
    /\ LET recs == RecordsOf(Get(api_response, KeyMetadata))
       IN  /\ Len(recs) = 2
           /\ TitleOf(recs[1]) = <<>>
           /\ TitleOf(recs[2]) # <<>>
           /\ extracted = <<ArticleOf(recs[2])>>

\* C19: in search_with_multiple_strategies the keyword strategy and the yearly
\* strategy add to the accumulator only records whose url is not the url of a
\* record an earlier strategy of the same call added.
C19_OnlyNewUrls ==
    rstage \in {"keyword", "yearly", "done"} =>
        \A s \in DOMAIN contributed : \A e \in 1..(s - 1) :
            \A i \in DOMAIN contributed[s].added : \A j \in DOMAIN contributed[e].added :
                contributed[s].added[i].url # contributed[e].added[j].url
\* the title strategy added a record; the keyword strategy got a record of the
\* same url and one of another url, and added only the latter
C19_Witness ==
    /\ rstage = "done"
    /\ contributed[1].added # <<>>
    /\ Len(contributed[2].got) > Len(contributed[2].added)
    /\ contributed[2].added # <<>>
    /\ all_results = contributed[1].added \o contributed[2].added \o contributed[3].added

(***************************************************************************)
(* Further claims about the detail enrichment                              *)
(***************************************************************************)
\* a call of extract_article_info_optimized is past its first pass
Extracted == dstage \in {"batch", "returned"} /\ records # <<>>
Submitted(i) == \E k \in DOMAIN need : need[k] = i
LacksField(article) == article.keywords = "" \/ article.abstract = ""

ReferenceKept(c) == IsDigit(c) \/ IsLowerAscii(c) \/ IsHangulSyllable(c) \/ c = " "
ReferenceKey(t) ==
    SelectSeq(Strip(CollapseWhitespace(LowerStr(t))), ReferenceKept)

\* C22: normalize_title(t) equals the reference key for every string t, and a
\* title that is no string yields the empty key.
C22_EqualsReferenceKey ==
    kstage = "done" =>
        title_key = IF title = NaN THEN <<>> ELSE ReferenceKey(title)
\* an uppercase letter, a tab and a hyphen: the key is the lowercase letter
\* and one space
C22_Witness ==
    /\ kstage = "done"
    /\ title = <<"A", "\t", "-">>
    /\ title_key = <<"a", " ">>

(***************************************************************************)
(* Claims about the keyword lookup                                         *)
(***************************************************************************)
\* the detail payload's articleInfo
ArticleInfoOf(detail) ==
    GetOr(GetOr(GetOr(detail, KeyOutputData), KeyRecord), KeyArticleInfo)
\* the detail payload's outputData and record are maps
WellFormedDetail(detail) ==
    /\ GetOr(detail, KeyOutputData).type = "dict"
    /\ GetOr(GetOr(detail, KeyOutputData), KeyRecord).type = "dict"
\* the keywords the paths yield, in the claimed order: the four paths on the
\* record, then the two on the detail payload when a detail is given
Yields ==
    <<extract_from_path(data, <<KeyKeywordGroup, KeyKeyword>>).items,
      extract_from_path(data, <<KeyKwdGroup, KeyKwd>>).items,
      extract_from_path(data, <<KeyKeywords>>).items,
      extract_from_path(data, <<KeyKeyword>>).items>>
    \o (IF detail_info.kids # <<>>
        THEN <<extract_from_path(ArticleInfoOf(detail_info),
                                 <<KeyKeywordGroup, KeyKeyword>>).items,
               extract_from_path(ArticleInfoOf(detail_info), <<KeyKwdGroup, KeyKwd>>).items>>
        ELSE <<>>)

C24_SameAsFlattener ==
    tstage = "risstext" => flat.text = extract_text_fast(data)

(***************************************************************************)
(* Further claims about the RISS collector                                 *)
(***************************************************************************)
\* every request of the call got at most the rowcount it asked for
WithinRowCounts == \A s \in DOMAIN contributed : contributed[s].within

\* C25: the list search_with_multiple_strategies returns never has more than
\* max_results records, when every upstream request returns at most the
\* rowcount it asked for.
C25_AtMostMaxResults ==
    (rstage = "done" /\ WithinRowCounts) => Len(all_results) <= max_results

\* the strategy (1 title, 2 keyword, 3 yearly) that added the record at
\* position i of the returned list
StrategyOf(i) ==
    IF i <= Len(contributed[1].added) THEN 1
    ELSE IF i <= Len(contributed[1].added) + Len(contributed[2].added) THEN 2
    ELSE 3
SameUrl(i, j) == all_results[i].url = all_results[j].url

\* C26 as stated: the returned list contains no two records with the same url,
\* records returned by one strategy included.
C26_NoDuplicateUrls ==
    rstage = "done" =>
        \A i, j \in DOMAIN all_results : i < j => ~SameUrl(i, j)
\* C26: the returned list is the records the three strategies added, in order,
\* and two of its records with the same url were added by the same strategy.
C26_DuplicatesWithinStrategy ==
    rstage = "done" =>
        /\ all_results =
              contributed[1].added \o contributed[2].added \o contributed[3].added
        /\ \A i, j \in DOMAIN all_results :
              (i < j /\ SameUrl(i, j)) => StrategyOf(i) = StrategyOf(j)
\* the title strategy added a record, and the yearly strategy added two
\* records of one url, got from two year slices
C26_Witness ==
    /\ rstage = "done"
    /\ Len(contributed[1].added) = 1
    /\ Len(contributed[3].added) = 2
    /\ contributed[3].added[1].url = contributed[3].added[2].url
    /\ Len(all_results) = 3 /\ SameUrl(2, 3)

(***************************************************************************)
(* Claims about the detail cache over several batches                      *)
(***************************************************************************)
\* the step is the cache write of a lookup of the running batch that fetched
\* a payload
IsCacheWrite ==
    \E t \in DOMAIN tasks :
        /\ tasks[t].pc = "fetched"
        /\ tasks[t].result \in Payloads
        /\ detail_cache' = Put(detail_cache, article_ids[t], tasks[t].result)
\* a lookup leaves the queue for an identifier the cache does not hold
StartsUncached(t) ==
    /\ dstage = "batch" /\ dstage' = "batch"
    /\ tasks[t].pc = "queued" /\ tasks'[t].pc # "queued"
    /\ article_ids[t] \notin DOMAIN detail_cache

\* C27: the detail cache holds only payloads of successful lookups and only
\* grows: every change of the cache is the write of a fetched payload under an
\* identifier of the running batch, which removes no entry; a failed lookup
\* writes nothing, and a lookup of an identifier the cache does not hold goes
\* to the network again.
C27_CacheOnlyGrows ==
    /\ [](\A id \in DOMAIN detail_cache : detail_cache[id] \in Payloads)
    /\ [][/\ detail_cache' # detail_cache => IsCacheWrite
          /\ DOMAIN detail_cache \subseteq DOMAIN detail_cache'
          /\ \A t \in DOMAIN tasks : StartsUncached(t) => tasks'[t].pc = "miss"]_vars
\* the cache holds an identifier since before the running batch, and the
\* lookup of another identifier failed in this batch and left no entry
C27_Witness ==
    /\ dstage = "batch"
    /\ DOMAIN cache_at_start # {}
    /\ \E t \in DOMAIN tasks :
          /\ Failed(t)
          /\ article_ids[t] \notin DOMAIN detail_cache
    /\ DOMAIN cache_at_start \subseteq DOMAIN detail_cache

(***************************************************************************)
(* Claims about the output of extract_article_info_optimized               *)
(***************************************************************************)
\* no record of the response raises in the first pass and no detail raises in
\* the write-back
NoException ==
    /\ \A i \in DOMAIN records : ~Raises(records[i])
    /\ \A k \in DOMAIN need :
          article_ids[k] \in DOMAIN details => ~WriteBackRaises(details[article_ids[k]])

\* C28: when no exception occurs, extract_article_info_optimized outputs one
\* record per input record in input order; the enrichment changes no field
\* other than keywords and abstract, and a record that was not submitted for
\* enrichment keeps all its first-pass values.
C28_FrameOfEnrichment ==
    (dstage = "returned" /\ records # <<>> /\ NoException) =>
        /\ Len(articles) = Len(records)
        /\ \A i \in DOMAIN records :
              /\ articles[i].article_id = extract_basic_info(records[i]).article_id
              /\ ~Submitted(i) => articles[i] = extract_basic_info(records[i])
\* two records: the first was not submitted and is as the first pass left it,
\* the second was submitted and got its keywords from the detail
C28_Witness ==
    /\ dstage = "returned" /\ NoException
    /\ Len(records) = 2 /\ need = <<2>>
    /\ records[1].article_id # records[2].article_id
    /\ articles[1] = extract_basic_info(records[1])
    /\ articles[2].keywords # "" /\ records[2].keywords = ""
    /\ articles[2].article_id = records[2].article_id

(***************************************************************************)
(* Further claims about QueryNormalizer.normalize                          *)
(***************************************************************************)
\* C29: two calls of normalize with the same query, the same CSV-mapped terms
\* and the same AI terms return the same ordered bundle.
C29_SameBundle ==
    nstage = "again" => bundle_again = bundle

=============================================================================
